---- MODULE Spec2Model ----
(***************************************************************************)
(* A model of the mp backend core: the constraint keeper and the driver    *)
(* that routes registered constraints to conversion or to the backend      *)
(* (constraint_keeper.h), and BasicBackend's solve lifecycle, feasibility   *)
(* relaxation input, MIP rounding and result reporting (backend.h), with   *)
(* CplexBackend as a concrete Impl (cplexbackend.cc).                      *)
(*                                                                         *)
(* Numbers.  Penalties are integer-valued; Infinity() is a number above    *)
(* every finite value of the model.  Primal values are fixed-point: an     *)
(* integer x stands for the double x / Scale.                              *)
(***************************************************************************)
EXTENDS Integers, Sequences, FiniteSets, TLC

VARIABLES
  \* ---- the converter's registry of keepers and the backend's model ----
  impl,              \* the final backend class (Impl): its static declarations
  keepers,           \* the registry: one ConstraintKeeper per entry
  calls,             \* per keeper, the keeper operations invoked on it, in order
  cursor,            \* the driver loop's position in the registry
  drv,               \* "idle" | "running" | "done" | "failed"
  pass,              \* how many times the driver has walked the registry
  registry_error,    \* what() of the exception that ended the driver
  ingested,          \* what the backend's AddConstraint overloads accepted
  orig_lin_constr_,  \* BasicBackend::orig_lin_constr_
  n_alg_constr_,     \* BasicBackend::n_alg_constr_
  \* ---- the solve lifecycle of BasicBackend ----
  storedOptions_,    \* BasicBackend::storedOptions_
  solver_,           \* Solver::timing() and Solver::multiobj()
  problem,           \* the model behind the ConverterQuery and the solver
  world,             \* what the solver and its library can answer
  pc,                \* the phase of SolveAndReport that runs next
  phases,            \* the phases of SolveAndReport entered so far, in order
  feasRelaxIO_,      \* BasicBackend::feasRelaxIO_
  fills,             \* the FillFeasRelaxPenalty calls of InputFeasRelaxData
  native,            \* the solver's own state after the solve
  solve_code_,       \* BasicBackend::solve_code_
  solve_status_,     \* BasicBackend::solve_status_
  reported,          \* the calls made to the reporting collaborator, in order
  invoked,           \* the Impl operations the lifecycle has called
  rounding,          \* the last RoundSolution: its input, result and effect
  solve_error,       \* what() of the exception that left SolveAndReport
  \* ---- the solver options ----
  env_defaults,      \* the solver library's default of each native parameter
  params,            \* the native parameters of the solver environment
  slvOptionRecords_, \* BasicBackend::slvOptionRecords_
  sets,              \* the option sets made through the registry, in order
  replays,           \* per ReplaySolverOptions call, the setters it invoked
  snapshot,          \* the parameters and the number of sets at the reset
  optpc,             \* "constructed" | "configuring" | "reset" | "replayed"
  option_error,      \* what() of the exception of the last set or replay
  \* ---- the CPLEX library behind CplexBackend ----
  terminate_flag,    \* the file-scope terminate_flag of cplexbackend.cc
  interrupt_handler, \* the handler the interrupter calls on a cancellation
  run_no,            \* the number of the SolveAndReport call, from 1
  requested,         \* the runs in which a cancellation was requested
  rows,              \* the rows handed to CPXaddrows, in order
  cols,              \* the columns handed to CPXnewcols, in order
  indconstrs,        \* the indicator constraints handed to CPXaddindconstr
  objective          \* the sense and the terms of the CPLEX objective

regVars == <<impl, keepers, calls, cursor, drv, pass, registry_error,
             ingested, orig_lin_constr_, n_alg_constr_>>

\* The lifecycle without the solver's problem.
runVars == <<storedOptions_, solver_, world, pc, phases, feasRelaxIO_, fills,
             native, solve_code_, solve_status_, reported, invoked, rounding,
             solve_error>>

lifeVars == <<runVars, problem>>

optVars == <<env_defaults, params, slvOptionRecords_, sets, replays,
             snapshot, optpc, option_error>>

\* The CPLEX problem object (lp).
lpVars == <<rows, cols, indconstrs, objective>>

\* The interrupter and the statics of cplexbackend.cc.
interruptVars == <<terminate_flag, interrupt_handler, run_no, requested>>

cplexVars == <<interruptVars, lpVars>>

vars == <<regVars, lifeVars, optVars, cplexVars>>

----------------------------------------------------------------------------
(* Bounds of the model *)
MaxKeepers == 2      \* constraints the model builder registers
MaxPasses == 2       \* walks of the driver over the registry
MaxRemoves == 2      \* Remove() calls after which no outside caller adds one
MaxAlgCons == 2      \* AddAlgebraicConstraint calls
MaxVars == 2         \* variables of the solved problem (rounding)
MaxEntities == 3     \* variables or constraints of the problem (penalties)
MaxIntermediate == 1 \* intermediate solutions reported during one solve
Scale == 4           \* primal values are multiples of 1 / Scale
MaxParamValue == 2   \* the largest value a native parameter can hold
MaxOptionSets == 2   \* option sets through the registry
MaxReplays == 2      \* calls of ReplaySolverOptions
MaxRuns == 2         \* calls of SolveAndReport in one process
MaxRows == 2         \* linear constraints handed to CplexBackend
MaxCols == 1         \* variables handed to CplexBackend
MaxInds == 1         \* indicator constraints handed to CplexBackend

----------------------------------------------------------------------------
(* Constraint kinds and acceptance levels *)

Levels == {"NotAccepted", "AcceptedButNotRecommended", "Recommended"}

LC == "LinearConstraint"
LDC == "LinearDefiningConstraint"
IND == "IndicatorConstraintLinLE"
QC == "QuadraticConstraint"
Kinds == {LC, LDC, IND, QC}

NoResultVar == -1

\* A constraint: its kind, linear body, bounds, and result variable (-1: none).
Con(kind, c, v, lb, ub, rv) ==
  [kind |-> kind, c |-> c, v |-> v, lb |-> lb, ub |-> ub, rv |-> rv]

\* IndicatorConstraintLinLE: (b_ = bv_) implies c_ * v_ <= rhs_.
Ind(b, bv, c, v, rhs) ==
  [kind |-> IND, c |-> c, v |-> v, lb |-> 0, ub |-> rhs, rv |-> NoResultVar,
   b |-> b, bv |-> bv, rhs |-> rhs]

\* The constraints the model builder can register.
InputConstraints ==
  { Con(LDC, <<2, 3>>, <<0, 1>>, 0, 5, 2),
    Con(LDC, <<1>>, <<1>>, -4, -4, 3),
    Con(LC, <<1, 1>>, <<0, 1>>, 1, 1, NoResultVar),
    Ind(1, 1, <<1>>, <<0>>, 2),
    Con(QC, <<1>>, <<0>>, 0, 9, NoResultVar) }

\* The algebraic constraints of the NL model: linear, quadratic
\* (p_extra_info set), or with a nonlinear expression.
AlgebraicCons ==
  { [nonlinear |-> FALSE, quadratic |-> FALSE, c |-> <<1, 2>>, v |-> <<0, 1>>,
     lb |-> 0, ub |-> 4],
    [nonlinear |-> FALSE, quadratic |-> TRUE, c |-> <<1>>, v |-> <<0>>,
     lb |-> 1, ub |-> 1],
    [nonlinear |-> TRUE, quadratic |-> FALSE, c |-> <<>>, v |-> <<>>,
     lb |-> 0, ub |-> 0] }

----------------------------------------------------------------------------
(* The backends.  An Impl is described by what it declares statically:     *)
(* its ACCEPT_CONSTRAINT overrides, the constraint kinds for which it      *)
(* supplies AddConstraint, and whether it supplies AddGeneralConstraint.   *)

\* The standard features as BasicBackend declares them.
StdFeatures == {"MULTIOBJ", "MULTISOL", "KAPPA", "FEAS_RELAX", "WANT_ROUNDING"}

\* A BasicBackend that allows no standard feature.
BasicBackendFeaturesAllOff == [f \in StdFeatures |-> FALSE]

BasicBackendFeatures ==
  [f \in StdFeatures |-> (f = "WANT_ROUNDING")]

\* The feature table of an Impl: its own ALLOW_STD_FEATURE declarations
\* (allow), and BasicBackend's for the features it does not mention.
StdFeaturesOf(allow) ==
  [f \in StdFeatures |->
     IF f \in DOMAIN allow THEN allow[f] ELSE BasicBackendFeatures[f]]

BasicBackendImpl ==
  [name |-> "BasicBackend", accept |-> <<>>, adds |-> {}, general |-> FALSE,
   allow |-> <<>>, features |-> StdFeaturesOf(<<>>)]

CplexBackendImpl ==
  [name |-> "CplexBackend", accept |-> (IND :> "Recommended"),
   adds |-> {LC, IND}, general |-> FALSE,
   allow |-> <<>>, features |-> StdFeaturesOf(<<>>)]

FullBackendImpl ==
  [name |-> "FullBackend",
   accept |-> (LDC :> "AcceptedButNotRecommended" @@ QC :> "Recommended"
               @@ IND :> "NotAccepted"),
   adds |-> {LC, QC}, general |-> TRUE,
   allow |-> [f \in StdFeatures |-> TRUE],
   features |-> StdFeaturesOf([f \in StdFeatures |-> TRUE])]

\* A backend that adds linear constraints and switches rounding off.
PlainBackendImpl ==
  [name |-> "PlainBackend", accept |-> <<>>, adds |-> {LC},
   general |-> FALSE,
   allow |-> ("WANT_ROUNDING" :> FALSE),
   features |-> StdFeaturesOf("WANT_ROUNDING" :> FALSE)]

Impls == {BasicBackendImpl, CplexBackendImpl, FullBackendImpl}

\* BasicBackend's own ACCEPT_CONSTRAINT declarations.
BasicBackendAccept == (LDC :> "NotAccepted" @@ LC :> "Recommended")

\* Backend::AcceptanceLevel(const K*): the most derived declaration for K,
\* and NotAccepted for a kind nobody declares.
AcceptanceLevel(im, kind) ==
  IF kind \in DOMAIN im.accept THEN im.accept[kind]
  ELSE IF kind \in DOMAIN BasicBackendAccept THEN BasicBackendAccept[kind]
  ELSE "NotAccepted"

ConverterName == "Converter"

\* LinearDefiningConstraint::to_linear_constraint(): the same linear body and
\* bounds, no result variable.
to_linear_constraint(ldc) ==
  Con(LC, ldc.c, ldc.v, ldc.lb, ldc.ub, NoResultVar)

\* MakeUnsupportedError(name)
MakeUnsupportedError(name) == <<"Unsupported: ", name>>

\* The result of a call that may throw: ok, or what() of the exception.
Ok(val) == [ok |-> TRUE, what |-> <<>>, val |-> val]
Throw(what) == [ok |-> FALSE, what |-> what, val |-> <<>>]

\* Backend::AddConstraint(const K&): the constraints handed to the solver.
RECURSIVE AddConstraint(_, _)
AddConstraint(im, con) ==
  IF con.kind = LDC
    THEN AddConstraint(im, to_linear_constraint(con))
  ELSE IF con.kind \in im.adds
    THEN Ok(<<con>>)
  ELSE IF con.kind = LC
    THEN Throw(MakeUnsupportedError("BasicBackend::AddLinearConstraint"))
  ELSE Throw(<<"Not handling constraint ", con.kind>>)

\* BasicConstraintConverter::Convert: no conversion for an unknown constraint.
Convert(con) == Throw(<<"Not converting constraint ", con.kind>>)

\* The converter's conversion of a defining linear constraint: register the
\* plain linear constraint in its place.
ConvertLinearDefining(con) == Ok(<<to_linear_constraint(con)>>)

\* Converter::RunConversion: the Convert overload for the constraint's kind.
RunConversion(con) ==
  IF con.kind = LDC THEN ConvertLinearDefining(con) ELSE Convert(con)

----------------------------------------------------------------------------
(* ConstraintKeeper *)

\* A new keeper: cons_ and is_removed_ = false.  origin is the
\* registry index of the keeper whose conversion registered it (0: the model
\* builder).
makeConstraintKeeper(con, origin) ==
  [cons_ |-> con, is_removed_ |-> FALSE, origin |-> origin]

\* A keeper that never reports its removal.
IsRemovedNever(kp) == FALSE

IsRemoved(kp) == kp.is_removed_

\* A Remove() that flips the flag instead of setting it.
RemoveToggles(kp) == [kp EXCEPT !.is_removed_ = ~@]

Remove(kp) == [kp EXCEPT !.is_removed_ = TRUE]

GetResultVar(kp) == kp.cons_.rv

\* A keeper of a defining constraint that asks for the level of the linear
\* constraint AddConstraint rewrites it to.
BackendAcceptanceOfRewrite(kp, im) ==
  AcceptanceLevel(im, IF kp.cons_.kind = LDC THEN LC ELSE kp.cons_.kind)

BackendAcceptance(kp, im) == AcceptanceLevel(im, kp.cons_.kind)

\* A ConvertWith that puts the constraint's kind into the rethrown message.
ConvertWithKind(kp) ==
  LET r == RunConversion(kp.cons_)
  IN  IF r.ok THEN r
      ELSE Throw(<<ConverterName, ": ", kp.cons_.kind, ": ">> \o r.what)

\* ConvertWith: RunConversion, an exception rethrown with the converter's name.
ConvertWith(kp) ==
  LET r == RunConversion(kp.cons_)
  IN  IF r.ok THEN r ELSE Throw(<<ConverterName, ": ">> \o r.what)

\* AddToBackend: AddConstraint, an exception rethrown with the backend's name.
AddToBackend(kp, im) ==
  LET r == AddConstraint(im, kp.cons_)
  IN  IF r.ok THEN r ELSE Throw(<<im.name, ": ">> \o r.what)

----------------------------------------------------------------------------
(* The CPLEX problem object behind CplexBackend.  The library takes what   *)
(* it is handed: the CPLEX_CALLs of the model's additions return 0.        *)

\* BasicBackend::Infinity(): above every finite number of the model.
Infinity == 1000

\* BasicBackend::MinusInfinity()
MinusInfinity == -Infinity

\* BasicBackend::IsFinite(n)
IsFinite(n) == n > MinusInfinity /\ n < Infinity

\* The row CPXaddrows gets for the bounds lb and ub, and the range
\* CPXchgrngval gets after it for a row of sense 'R' (none otherwise).
LinearRow(lb, ub) ==
  LET sense1 == IF lb = ub THEN "E"
                ELSE IF lb > MinusInfinity THEN "G" ELSE "E"
      sense == IF lb # ub /\ ub < Infinity
                 THEN (IF "G" = sense1 THEN "R" ELSE "L")
                 ELSE sense1
      rhs == IF lb # ub /\ ub < Infinity /\ "G" # sense1 THEN ub ELSE lb
  IN  [sense |-> sense, rhs |-> rhs,
       range |-> IF "R" = sense THEN <<ub - lb>> ELSE <<>>]

\* CplexBackend::AddConstraint(const LinearConstraint&): the rows after it.
CPXaddrows(lc, rws) ==
  Append(rws, [lb |-> lc.lb, ub |-> lc.ub, c |-> lc.c, v |-> lc.v,
               row |-> LinearRow(lc.lb, lc.ub)])

\* CplexBackend::AddConstraint(const IndicatorConstraintLinLE&): the
\* indicator constraints after CPXaddindconstr(b_, !bv_, rhs_, 'L', v_, c_).
CPXaddindconstr(ic, inds) ==
  Append(inds, [indvar |-> ic.b,
                complemented |-> IF ic.bv = 0 THEN 1 ELSE 0,
                rhs |-> ic.rhs, sense |-> "L",
                linind |-> ic.v, linval |-> ic.c])

\* The rows and the indicator constraints of the solver after the Impl's
\* AddConstraint took the constraints of added.  CplexBackend hands a linear
\* constraint to CPXaddrows and an indicator constraint to CPXaddindconstr;
\* the other Impls have no CPLEX problem.
RECURSIVE HandedToSolver(_, _, _, _)
HandedToSolver(im, added, rws, inds) ==
  IF added = <<>> \/ im.name # "CplexBackend"
    THEN [rows |-> rws, indconstrs |-> inds]
  ELSE LET con == Head(added)
       IN  IF con.kind = LC
             THEN HandedToSolver(im, Tail(added), CPXaddrows(con, rws), inds)
           ELSE HandedToSolver(im, Tail(added), rws,
                               CPXaddindconstr(con, inds))

\* The step of an action in which the Impl's AddConstraint takes the
\* constraints of added: the CPLEX problem gets them, NumberOfConstraints()
\* (CPXgetnumrows) counts the new rows, and nothing else outside the
\* registry changes.
HandToSolver(added) ==
  LET lp == HandedToSolver(impl, added, rows, indconstrs)
  IN  /\ rows' = lp.rows
      /\ indconstrs' = lp.indconstrs
      /\ problem' = [problem EXCEPT
                       !.ncons = @ + (Len(lp.rows) - Len(rows))]
      /\ UNCHANGED <<runVars, optVars, interruptVars, cols, objective>>

----------------------------------------------------------------------------
(* The registry and its driver *)

Logged(k, op) == [calls EXCEPT ![k] = Append(@, op)]

Count(s, x) == Cardinality({i \in 1..Len(s) : s[i] = x})

RECURSIVE SumCount(_, _, _)
SumCount(ss, x, k) ==
  IF k = 0 THEN 0 ELSE Count(ss[k], x) + SumCount(ss, x, k - 1)

NRemoves == SumCount(calls, "Remove", Len(calls))

NBuilt == Cardinality({k \in 1..Len(keepers) : keepers[k].origin = 0})

\* The model builder registers a constraint: a new keeper at the end.
Register(con) ==
  /\ drv = "idle"
  /\ NBuilt < MaxKeepers
  /\ keepers' = Append(keepers, makeConstraintKeeper(con, 0))
  /\ calls' = Append(calls, <<>>)
  /\ UNCHANGED <<impl, cursor, drv, pass, registry_error, ingested,
                 orig_lin_constr_, n_alg_constr_>>
  /\ UNCHANGED <<lifeVars, optVars, cplexVars>>

\* Remove() called on a keeper from outside the driver loop.
RemoveKeeper(k) ==
  /\ k \in 1..Len(keepers)
  /\ NRemoves < MaxRemoves
  /\ keepers' = [keepers EXCEPT ![k] = Remove(@)]
  /\ calls' = Logged(k, "Remove")
  /\ UNCHANGED <<impl, cursor, drv, pass, registry_error, ingested,
                 orig_lin_constr_, n_alg_constr_>>
  /\ UNCHANGED <<lifeVars, optVars, cplexVars>>

StartDriver ==
  /\ drv = "idle"
  /\ drv' = "running"
  /\ cursor' = 1
  /\ pass' = 1
  /\ UNCHANGED <<impl, keepers, calls, registry_error, ingested,
                 orig_lin_constr_, n_alg_constr_>>
  /\ UNCHANGED <<lifeVars, optVars, cplexVars>>

\* One step of the driver: the keeper under the cursor is skipped when
\* removed, converted and removed when the backend does not accept its kind,
\* and added to the backend otherwise.
DriverStep ==
  /\ drv = "running"
  /\ cursor <= Len(keepers)
  /\ LET kp == keepers[cursor]
     IN
     IF IsRemoved(kp)
       THEN /\ cursor' = cursor + 1
            /\ UNCHANGED <<keepers, calls, drv, registry_error, ingested>>
     ELSE IF BackendAcceptance(kp, impl) = "NotAccepted"
       THEN LET r == ConvertWith(kp)
            IN  IF r.ok
                  THEN /\ keepers' =
                            [keepers EXCEPT ![cursor] = Remove(@)]
                            \o [i \in 1..Len(r.val) |->
                                  makeConstraintKeeper(r.val[i], cursor)]
                       /\ calls' =
                            [calls EXCEPT
                               ![cursor] = @ \o <<"ConvertWith", "Remove">>]
                            \o [i \in 1..Len(r.val) |-> <<>>]
                       /\ cursor' = cursor + 1
                       /\ UNCHANGED <<drv, registry_error, ingested>>
                  ELSE /\ calls' = Logged(cursor, "ConvertWith")
                       /\ drv' = "failed"
                       /\ registry_error' = r.what
                       /\ UNCHANGED <<keepers, cursor, ingested>>
     ELSE LET r == AddToBackend(kp, impl)
          IN  /\ calls' = Logged(cursor, "AddToBackend")
              /\ IF r.ok
                   THEN /\ ingested' = ingested \o
                             [i \in 1..Len(r.val) |->
                                [via |-> "AddToBackend", keeper |-> cursor,
                                 con |-> r.val[i]]]
                        /\ cursor' = cursor + 1
                        /\ UNCHANGED <<keepers, drv, registry_error>>
                   ELSE /\ drv' = "failed"
                        /\ registry_error' = r.what
                        /\ UNCHANGED <<keepers, cursor, ingested>>
  /\ LET kp == keepers[cursor]
         r == AddToBackend(kp, impl)
     IN  HandToSolver(IF ~IsRemoved(kp)
                         /\ BackendAcceptance(kp, impl) # "NotAccepted"
                         /\ r.ok
                        THEN r.val ELSE <<>>)
  /\ UNCHANGED <<impl, pass, orig_lin_constr_, n_alg_constr_>>

FinishDriver ==
  /\ drv = "running"
  /\ cursor > Len(keepers)
  /\ drv' = "done"
  /\ UNCHANGED <<impl, keepers, calls, cursor, pass, registry_error,
                 ingested, orig_lin_constr_, n_alg_constr_>>
  /\ UNCHANGED <<lifeVars, optVars, cplexVars>>

\* The driver walks the registry again.
RevisitRegistry ==
  /\ drv = "done"
  /\ pass < MaxPasses
  /\ drv' = "running"
  /\ cursor' = 1
  /\ pass' = pass + 1
  /\ UNCHANGED <<impl, keepers, calls, registry_error, ingested,
                 orig_lin_constr_, n_alg_constr_>>
  /\ UNCHANGED <<lifeVars, optVars, cplexVars>>

----------------------------------------------------------------------------
(* BasicBackend::AddAlgebraicConstraint *)

NAlgCalls == Cardinality({i \in 1..Len(ingested) :
                            ingested[i].via \in {"AddAlgebraicConstraint",
                                                 "AddAlgebraicConstraint!"}})

\* BasicBackend::AddGeneralConstraint, or the Impl's own.
AddGeneralConstraint(im, con) ==
  IF im.general THEN Ok(<<con>>)
  ELSE Throw(MakeUnsupportedError("BasicBackend::AddGeneralConstraint"))

\* The backend's state after AddAlgebraicConstraint(con): the constraint added,
\* the list of original linear constraints and the counter.
AddAlgebraicConstraintResult(im, con, orig, nalg) ==
  IF con.nonlinear
    THEN LET r == AddGeneralConstraint(im, con)
         IN  [r |-> r, orig |-> orig, nalg |-> nalg]
  ELSE LET lc == Con(LC, con.c, con.v, con.lb, con.ub, NoResultVar)
       IN  IF ~con.quadratic
             THEN LET r == AddConstraint(im, lc)
                  IN  IF r.ok
                        THEN [r |-> r, orig |-> Append(orig, nalg),
                              nalg |-> nalg + 1]
                        ELSE [r |-> r, orig |-> orig, nalg |-> nalg]
             ELSE LET r == AddConstraint(im, [lc EXCEPT !.kind = QC])
                  IN  IF r.ok
                        THEN [r |-> r, orig |-> orig, nalg |-> nalg + 1]
                        ELSE [r |-> r, orig |-> orig, nalg |-> nalg]

AddAlgebraicConstraint(con) ==
  /\ NAlgCalls < MaxAlgCons
  /\ LET res == AddAlgebraicConstraintResult(impl, con, orig_lin_constr_,
                                             n_alg_constr_)
     IN  /\ orig_lin_constr_' = res.orig
         /\ n_alg_constr_' = res.nalg
         /\ ingested' = Append(ingested,
               [via |-> IF res.r.ok THEN "AddAlgebraicConstraint"
                        ELSE "AddAlgebraicConstraint!",
                keeper |-> 0,
                con |-> con])
         /\ HandToSolver(res.r.val)
  /\ UNCHANGED <<impl, keepers, calls, cursor, drv, pass, registry_error>>

----------------------------------------------------------------------------
(* Solve codes (sol::Status), by the canonical order: Solved, the range    *)
(* Infeasible..Unbounded, Uncertain, Interrupted, Failure, NotChecked.     *)
SOLVED == 0
INFEASIBLE == 200
UNBOUNDED == 300
UNCERTAIN == 400
INTERRUPTED == 500
FAILURE == 600
NOT_CHECKED == 700

\* struct Options: the defaults.  round_reptol_ is 1e-9, which is 0 in
\* multiples of 1 / Scale.
DefaultOptions ==
  [exportKappa_ |-> 0, feasRelax_ |-> 0, lbpen_ |-> 1, ubpen_ |-> 1,
   rhspen_ |-> 1, round_ |-> 0, round_reptol_ |-> 0]

\* struct FeasrelaxIO: the defaults.
DefaultFeasrelaxIO ==
  [mode_ |-> 0, lbpen |-> <<>>, ubpen |-> <<>>, rhspen |-> <<>>,
   origObjAvailable_ |-> FALSE]

\* IMPL_HAS_STD_FEATURE( name )
ImplHasStdFeature(im, name) == im.features[name]

\* x & bit, for bit a power of two
BitAnd(x, bit) == IF (x \div bit) % 2 = 1 THEN bit ELSE 0

exportKappa(opts) == opts.exportKappa_
feasrelaxMode(opts) == opts.feasRelax_
lbpen(opts) == opts.lbpen_
ubpen(opts) == opts.ubpen_
rhspen(opts) == opts.rhspen_
round_reptol(opts) == opts.round_reptol_

\* int round() const
round(im, opts) ==
  IF ImplHasStdFeature(im, "WANT_ROUNDING") THEN opts.round_ ELSE 0

\* ConverterQuery::ReadSuffix: the array the model holds for the suffix.
ReadDblSuffix(prob, name, kind) == prob.suffixes[<<name, kind>>]

SuffixKeys ==
  {<<"lbpen", "VAR">>, <<"ubpen", "VAR">>, <<"lbpen", "CON">>,
   <<"rhspen", "CON">>}

----------------------------------------------------------------------------
(* FillFeasRelaxPenalty and InputFeasRelaxData *)

\* A penalty as FillFeasRelaxPenalty stores it: Infinity for a negative one.
Penalty(v) == IF v < 0 THEN Infinity ELSE v

\* The loop for (size_t i = suf_pen.size(); i--; ) of FillFeasRelaxPenalty,
\* with i entries still to write, over every way it can go.  A run is the
\* vector result with the array suf_pen the loop reads.  The write result[i]
\* with i >= n is beyond the end of the vector, which is undefined: it lands
\* in the heap behind the vector's buffer, on nothing the loop uses or on an
\* entry of suf_pen the loop has yet to read.  res.oob holds the indexes
\* (from 1) written beyond the end and res.stray the values written there.
RECURSIVE FillLoop(_, _, _)
FillLoop(res, n, i) ==
  IF i = 0 THEN res
  ELSE FillLoop(
         IF i <= n
           THEN [res EXCEPT !.runs =
                   {[r EXCEPT !.result[i] = Penalty(r.suf_pen[i])] : r \in @}]
           ELSE [runs |-> UNION {{r} \cup
                                 {[r EXCEPT !.suf_pen[j] =
                                              Penalty(r.suf_pen[i])] :
                                    j \in 1..(i - 1)} : r \in res.runs},
                 oob |-> res.oob \cup {i},
                 stray |-> res.stray
                             \cup {Penalty(r.suf_pen[i]) : r \in res.runs}],
         n, i - 1)

\* A fill that ignores the per-entity values of the suffix.
FillFeasRelaxPenaltyNoSuffix(suf_pen, pen, n) ==
  [results |-> IF suf_pen = <<>> /\ pen < 0
                 THEN {<<>>}
                 ELSE {[i \in 1..n |-> Penalty(pen)]},
   oob |-> {}, stray |-> {}]

\* FillFeasRelaxPenalty: the vectors it can return (one, unless the loop
\* wrote beyond the end), the indexes written beyond the end and the values
\* written there.
FillFeasRelaxPenalty(suf_pen, pen, n) ==
  IF suf_pen = <<>> /\ pen < 0
    THEN [results |-> {<<>>}, oob |-> {}, stray |-> {}]
    ELSE LET res == FillLoop([runs |-> {[result |-> [i \in 1..n |->
                                                      Penalty(pen)],
                                         suf_pen |-> suf_pen]},
                              oob |-> {}, stray |-> {}],
                             n, Len(suf_pen))
         IN  [results |-> {r.result : r \in res.runs},
              oob |-> res.oob, stray |-> res.stray]

\* One call of FillFeasRelaxPenalty: its arguments, the indexes and values
\* it wrote beyond the end of its vector, and the vector it returned.
FillCall(suf_pen, pen, n) ==
  LET f == FillFeasRelaxPenalty(suf_pen, pen, n)
  IN  {[suf_pen |-> suf_pen, pen |-> pen, n |-> n, result |-> v,
        oob |-> f.oob, stray |-> f.stray] : v \in f.results}

\* A vector built before a write beyond the end of a later one: the stray
\* write misses it or lands on one of its entries.
Hit(vecs, stray) ==
  vecs \cup UNION {{[v EXCEPT ![j] = w] : j \in 1..Len(v), w \in stray} :
                     v \in vecs}

\* The feasibility relaxation data after the calls l, u and r, in this order.
AssignFeasRelaxData(opts, io, l, u, r) ==
  {[io |-> [io EXCEPT !.mode_ = feasrelaxMode(opts),
                      !.lbpen = lb, !.ubpen = ub, !.rhspen = r.result],
    fills |-> <<l, u, r>>,
    oob |-> l.oob \cup u.oob \cup r.oob] :
     lb \in Hit(Hit({l.result}, u.stray), r.stray),
     ub \in Hit({u.result}, r.stray)}

\* The assignments of InputFeasRelaxData after its early return, over every
\* way the three fills can go.
BuildFeasRelaxData(opts, prob, io, suf_lbpen, suf_ubpen, suf_rhspen) ==
  UNION {AssignFeasRelaxData(opts, io, l, u, r) :
           l \in FillCall(suf_lbpen, lbpen(opts), prob.nvars),
           u \in FillCall(suf_ubpen, ubpen(opts), prob.nvars),
           r \in FillCall(suf_rhspen, rhspen(opts), prob.ncons)}

\* An InputFeasRelaxData without its early return.
InputFeasRelaxDataAlways(opts, prob, io) ==
  BuildFeasRelaxData(opts, prob, io,
                     ReadDblSuffix(prob, "lbpen", "VAR"),
                     ReadDblSuffix(prob, "ubpen", "VAR"),
                     ReadDblSuffix(prob, "lbpen", "CON"))

\* InputFeasRelaxData, over every way it can go: the feasibility relaxation
\* data after it, the calls of FillFeasRelaxPenalty it made, and the indexes
\* written out of bounds.
InputFeasRelaxData(opts, prob, io) ==
  LET suf_lbpen == ReadDblSuffix(prob, "lbpen", "VAR")
      suf_ubpen == ReadDblSuffix(prob, "ubpen", "VAR")
      suf_rhspen == ReadDblSuffix(prob, "lbpen", "CON")
  IN  IF /\ suf_lbpen = <<>> /\ suf_ubpen = <<>> /\ suf_rhspen = <<>>
         /\ 0 > lbpen(opts) /\ 0 > ubpen(opts) /\ 0 > rhspen(opts)
        THEN {[io |-> io, fills |-> <<>>, oob |-> {}]}
        ELSE BuildFeasRelaxData(opts, prob, io, suf_lbpen, suf_ubpen,
                                suf_rhspen)

\* The calls InputStdExtras makes into the Impl under multiobj().
MultiObjInputs == {"ObjPriorities", "ObjWeights", "ObjAbsTol", "ObjRelTol"}

\* InputStdExtras: whether it returned, what it threw, the feasibility
\* relaxation data after it, and the calls it made into the Impl.
InputStdExtras(im, opts, slv, prob, io) ==
  LET untouched == {[io |-> io, fills |-> <<>>, oob |-> {}]}
  IN  IF slv.multiobj /\ ~ImplHasStdFeature(im, "MULTIOBJ")
        THEN [ok |-> FALSE,
              what |-> MakeUnsupportedError("BasicBackend::ObjPriorities"),
              fr |-> untouched, invoked |-> {"ObjPriorities"}]
        ELSE [ok |-> TRUE, what |-> <<>>,
              fr |-> IF feasrelaxMode(opts) # 0
                       THEN InputFeasRelaxData(opts, prob, io)
                       ELSE untouched,
              invoked |-> IF slv.multiobj THEN MultiObjInputs ELSE {}]

----------------------------------------------------------------------------
(* MIP rounding *)

Abs(x) == IF x < 0 THEN -x ELSE x
Min(a, b) == IF a < b THEN a ELSE b

\* std::round on a multiple of 1 / Scale: the nearest integer, halves away
\* from zero.
StdRound(x) ==
  (IF x < 0 THEN -1 ELSE 1) * (((2 * Abs(x) + Scale) \div (2 * Scale)) * Scale)

\* The loop for (auto j = min(fInt.size(), sol.size()); j--; ) of DoRound,
\* with j entries still to visit.
RECURSIVE DoRoundLoop(_, _, _, _)
DoRoundLoop(st, fInt, fAssign, j) ==
  IF j = 0 THEN st
  ELSE IF fInt[j]
    THEN LET y == StdRound(st.sol[j])
             d == Abs(st.sol[j] - y)
         IN  IF 0 # d
               THEN DoRoundLoop(
                      [sol |-> IF fAssign THEN [st.sol EXCEPT ![j] = y]
                               ELSE st.sol,
                       nround |-> st.nround + 1,
                       maxmodif |-> IF st.maxmodif < d THEN d
                                    ELSE st.maxmodif],
                      fInt, fAssign, j - 1)
               ELSE DoRoundLoop(st, fInt, fAssign, j - 1)
  ELSE DoRoundLoop(st, fInt, fAssign, j - 1)

\* A DoRound that stops at the first variable it rounds.
DoRoundFirstOnly(sol, fInt, rnd) ==
  LET js == {j \in 1..Min(Len(fInt), Len(sol)) :
               fInt[j] /\ StdRound(sol[j]) # sol[j]}
  IN  IF js = {} THEN [sol |-> sol, nround |-> 0, maxmodif |-> 0]
      ELSE LET j == CHOOSE i \in js : \A h \in js : h <= i
           IN  [sol |-> IF BitAnd(rnd, 1) # 0
                          THEN [sol EXCEPT ![j] = StdRound(sol[j])]
                          ELSE sol,
                nround |-> 1,
                maxmodif |-> Abs(sol[j] - StdRound(sol[j]))]

\* DoRound(sol): the solution after it, and the pair it returns.
DoRound(sol, fInt, rnd) ==
  DoRoundLoop([sol |-> sol, nround |-> 0, maxmodif |-> 0], fInt,
              BitAnd(rnd, 1) # 0, Min(Len(fInt), Len(sol)))

IsSolStatusRetrieved(code) == NOT_CHECKED # code

\* A part of the message the writer holds.
Part(name, args) == [part |-> name, args |-> args]

\* A ModifySolveCodeAndMessageAfterRounding that gives both cases one code.
ModifySolveCodeAndMessageAfterRoundingOneCode(rnd, rndres, code, msg) ==
  [code |-> IF BitAnd(rnd, 2) # 0 /\ IsSolStatusRetrieved(code)
              THEN 3 ELSE code,
   msg |-> IF BitAnd(rnd, 4) # 0
             THEN Append(msg, Part("rounding",
                    <<rndres.nround, IF rndres.nround > 1 THEN "s" ELSE "",
                      IF BitAnd(rnd, 1) # 0 THEN "" ELSE "would be ",
                      rndres.maxmodif>>))
             ELSE msg]

\* A ModifySolveCodeAndMessageAfterRounding that writes the plural for one
\* variable too.
ModifySolveCodeAndMessageAfterRoundingPlural(rnd, rndres, code, msg) ==
  [code |-> IF BitAnd(rnd, 2) # 0 /\ IsSolStatusRetrieved(code)
              THEN 3 - BitAnd(rnd, 1) ELSE code,
   msg |-> IF BitAnd(rnd, 4) # 0
             THEN Append(msg, Part("rounding",
                    <<rndres.nround, IF rndres.nround >= 1 THEN "s" ELSE "",
                      IF BitAnd(rnd, 1) # 0 THEN "" ELSE "would be ",
                      rndres.maxmodif>>))
             ELSE msg]

\* A ModifySolveCodeAndMessageAfterRounding that writes its summary at the
\* front of the message.
ModifySolveCodeAndMessageAfterRoundingInFront(rnd, rndres, code, msg) ==
  [code |-> IF BitAnd(rnd, 2) # 0 /\ IsSolStatusRetrieved(code)
              THEN 3 - BitAnd(rnd, 1) ELSE code,
   msg |-> IF BitAnd(rnd, 4) # 0
             THEN <<Part("rounding",
                    <<rndres.nround, IF rndres.nround > 1 THEN "s" ELSE "",
                      IF BitAnd(rnd, 1) # 0 THEN "" ELSE "would be ",
                      rndres.maxmodif>>)>> \o msg
             ELSE msg]

\* ModifySolveCodeAndMessageAfterRounding: the solve code and the message
\* after it.
ModifySolveCodeAndMessageAfterRounding(rnd, rndres, code, msg) ==
  [code |-> IF BitAnd(rnd, 2) # 0 /\ IsSolStatusRetrieved(code)
              THEN 3 - BitAnd(rnd, 1) ELSE code,
   msg |-> IF BitAnd(rnd, 4) # 0
             THEN Append(msg, Part("rounding",
                    <<rndres.nround, IF rndres.nround > 1 THEN "s" ELSE "",
                      IF BitAnd(rnd, 1) # 0 THEN "" ELSE "would be ",
                      rndres.maxmodif>>))
             ELSE msg]

\* RoundSolution(sol, writer): the solution, the solve code and the message
\* after it, with the pair DoRound returned.
RoundSolution(sol, fInt, rnd, code, msg) ==
  LET rndres == DoRound(sol, fInt, rnd)
  IN  IF rndres.nround # 0
        THEN LET m == ModifySolveCodeAndMessageAfterRounding(
                        rnd, rndres, code, msg)
             IN  [sol |-> rndres.sol, rndres |-> rndres, code |-> m.code,
                  msg |-> m.msg]
        ELSE [sol |-> rndres.sol, rndres |-> rndres, code |-> code,
              msg |-> msg]

NoRounding == [called |-> FALSE]

\* What one RoundSolution call did: its input, and its output.
RoundingRecord(at, x, code, msg, r) ==
  [called |-> TRUE, at |-> at, x |-> x, code_before |-> code,
   msg_before |-> msg, sol |-> r.sol, nround |-> r.rndres.nround,
   maxmodif |-> r.rndres.maxmodif, code_after |-> r.code,
   msg_after |-> r.msg]

----------------------------------------------------------------------------
(* Status classification and reporting *)

OptimStatuses == {"OPTIMAL", "INFEASIBLE", "UNBOUNDED", "INForUNBD", "OTHER"}

\* A ConvertSolutionStatus that looks at the solution pool before the
\* interrupter, and never reports an interrupt without a solution.
ConvertSolutionStatusPoolFirst(nat) ==
  CASE nat.optimstatus = "OPTIMAL" ->
         [code |-> SOLVED, text |-> "optimal solution"]
    [] nat.optimstatus = "INFEASIBLE" ->
         [code |-> INFEASIBLE, text |-> "infeasible problem"]
    [] nat.optimstatus = "UNBOUNDED" ->
         [code |-> UNBOUNDED, text |-> "unbounded problem"]
    [] nat.optimstatus = "INForUNBD" ->
         [code |-> INFEASIBLE + 1, text |-> "infeasible or unbounded problem"]
    [] OTHER ->
         IF nat.solcount > 0
           THEN [code |-> UNCERTAIN, text |-> "feasible solution"]
         ELSE [code |-> FAILURE + 1, text |-> "unknown solution status"]

\* CplexBackend::ConvertSolutionStatus: the solve code and the status text.
ConvertSolutionStatus(nat) ==
  CASE nat.optimstatus = "OPTIMAL" ->
         [code |-> SOLVED, text |-> "optimal solution"]
    [] nat.optimstatus = "INFEASIBLE" ->
         [code |-> INFEASIBLE, text |-> "infeasible problem"]
    [] nat.optimstatus = "UNBOUNDED" ->
         [code |-> UNBOUNDED, text |-> "unbounded problem"]
    [] nat.optimstatus = "INForUNBD" ->
         [code |-> INFEASIBLE + 1, text |-> "infeasible or unbounded problem"]
    [] OTHER ->
         IF nat.stop
           THEN [code |-> INTERRUPTED, text |-> "interrupted"]
         ELSE IF nat.solcount > 0
           THEN [code |-> UNCERTAIN, text |-> "feasible solution"]
         ELSE [code |-> FAILURE + 1, text |-> "unknown solution status"]

IsProblemSolved(code) == code = SOLVED

\* An IsProblemInfOrUnb without the lower end of its range.
IsProblemInfOrUnbNoLowerEnd(code) == UNBOUNDED >= code

IsProblemInfOrUnb(code) == INFEASIBLE <= code /\ UNBOUNDED >= code

IsProblemInfeasible(code) == INFEASIBLE <= code /\ UNBOUNDED > code

\* An IsProblemUnbounded that holds of the upper end of the range only.
IsProblemUnboundedUpperEnd(code) == UNBOUNDED = code

IsProblemUnbounded(code) == INFEASIBLE < code /\ UNBOUNDED >= code

\* What a reporting step did: whether it returned, what it threw, the calls
\* it made on the reporting collaborator and the calls it made on the Impl.
Reported(cs, inv) ==
  [ok |-> TRUE, what |-> <<>>, calls |-> cs, invoked |-> inv]
ReportFailed(what, cs, inv) ==
  [ok |-> FALSE, what |-> what, calls |-> cs, invoked |-> inv]

\* double Kappa(): Unsupported unless the Impl has the feature.
Kappa(im) ==
  IF ImplHasStdFeature(im, "KAPPA") THEN Ok(0)
  ELSE Throw(MakeUnsupportedError("BasicBackend::Kappa"))

ReportSingleSuffix(name) == [call |-> "ReportSingleSuffix", suffix |-> name]

ReportKappa(im, opts) ==
  IF exportKappa(opts) # 0 /\ 2 # 0
    THEN IF Kappa(im).ok
           THEN Reported(<<ReportSingleSuffix("objkappa"),
                           ReportSingleSuffix("probkappa")>>, {"Kappa"})
           ELSE ReportFailed(Kappa(im).what, <<>>, {"Kappa"})
    ELSE Reported(<<>>, {})

ReportStandardSuffixes(im, opts, code) ==
  IF IsProblemSolved(code) /\ exportKappa(opts) # 0
    THEN ReportKappa(im, opts)
    ELSE Reported(<<>>, {})

HandleSolution(code, msg, sol) ==
  [call |-> "HandleSolution", code |-> code, msg |-> msg, sol |-> sol]

HandleFeasibleSolution(msg, sol) ==
  [call |-> "HandleFeasibleSolution", msg |-> msg, sol |-> sol]

\* ReportSolution: what it did, with the solve code after it and the record
\* of its rounding.
ReportSolution(im, opts, slv, prob, io, nat, code, status) ==
  LET m0 == <<Part("status", <<status>>)>>
      wantObj == code < INFEASIBLE /\ prob.nobjs > 0
      multi == wantObj /\ slv.multiobj /\ prob.nobjs > 1
      multiFails == multi /\ ~ImplHasStdFeature(im, "MULTIOBJ")
      objFails == wantObj /\ ~multi /\ nat.objerr
      m1 == IF ~wantObj THEN m0
            ELSE IF multi
              THEN m0 \o <<Part("objective", <<"">>),
                           Part("individual objective values", <<>>)>>
            ELSE m0 \o <<Part("objective",
                              <<IF io.mode_ # 0 THEN "feasrelax " ELSE "">>)>>
                    \o (IF io.origObjAvailable_
                          THEN <<Part("original objective", <<>>)>>
                          ELSE <<>>)
      inv1 == IF ~wantObj THEN {}
              ELSE IF multi THEN {"ObjectiveValues"} ELSE {"ObjectiveValue"}
      wantKappa == exportKappa(opts) # 0 /\ 1 # 0
      m2 == IF wantKappa THEN Append(m1, Part("kappa", <<>>)) ELSE m1
      inv2 == IF wantKappa THEN inv1 \cup {"Kappa"} ELSE inv1
      m3 == IF nat.niter # 0
              THEN Append(m2, Part("iterations", <<nat.niter>>)) ELSE m2
      m4 == IF nat.nnodes # 0
              THEN Append(m3, Part("nodes", <<nat.nnodes>>)) ELSE m3
      m5 == IF nat.extra THEN Append(m4, Part("extra", <<>>)) ELSE m4
      doRound == round(im, opts) # 0 /\ prob.isMIP
      r == RoundSolution(nat.x, prob.IsVarInt, round(im, opts), code, m5)
  IN  IF multiFails
        THEN ReportFailed(MakeUnsupportedError("ObjectiveValues()"), <<>>,
                          inv1)
               @@ [code |-> code, rounding |-> NoRounding]
      ELSE IF objFails
        THEN ReportFailed(<<"CPXgetobjval">>, <<>>, inv1)
               @@ [code |-> code, rounding |-> NoRounding]
      ELSE IF wantKappa /\ ~Kappa(im).ok
        THEN ReportFailed(Kappa(im).what, <<>>, inv2)
               @@ [code |-> code, rounding |-> NoRounding]
      ELSE IF doRound
        THEN Reported(<<HandleSolution(r.code, r.msg, r.sol)>>, inv2)
               @@ [code |-> r.code,
                   rounding |-> RoundingRecord("ReportSolution", nat.x, code,
                                               m5, r)]
      ELSE Reported(<<HandleSolution(code, m5, nat.x)>>, inv2)
             @@ [code |-> code, rounding |-> NoRounding]

\* ReportResults: ReportSuffixes, then ReportSolution.
ReportResultsOutcome(im, opts, slv, prob, io, nat, code, status) ==
  LET s == ReportStandardSuffixes(im, opts, code)
      t == ReportSolution(im, opts, slv, prob, io, nat, code, status)
  IN  IF ~s.ok THEN s @@ [code |-> code, rounding |-> NoRounding]
      ELSE [t EXCEPT !.calls = s.calls \o @, !.invoked = s.invoked \cup @]

\* The callback ReportIntermediateSolution(obj_value, solution, dual).
ReportIntermediateSolutionOutcome(im, opts, prob, code, solution) ==
  LET m0 == <<Part("status", <<"Alternative solution">>)>>
      m1 == IF prob.nobjs > 0 THEN Append(m0, Part("objective", <<"">>))
            ELSE m0
      doRound == round(im, opts) # 0 /\ prob.isMIP
      r == RoundSolution(solution, prob.IsVarInt, round(im, opts), code, m1)
  IN  IF doRound
        THEN [calls |-> <<HandleFeasibleSolution(r.msg, r.sol)>>,
              code |-> r.code,
              rounding |-> RoundingRecord("ReportIntermediateSolution",
                                          solution, code, m1, r)]
        ELSE [calls |-> <<HandleFeasibleSolution(m1, solution)>>,
              code |-> code, rounding |-> NoRounding]

----------------------------------------------------------------------------
(* SolveAndReport *)

\* A SolveAndReport that prints the timing whatever the flag.
AfterPhaseAlwaysTiming(p, timing) ==
  CASE p = "InputExtras" -> "SetupInterrupter"
    [] p = "SetupInterrupter" -> "SetupTimer"
    [] p = "SetupTimer" -> "SolveAndReportIntermediateResults"
    [] p = "SolveAndReportIntermediateResults" -> "RecordSolveTime"
    [] p = "RecordSolveTime" -> "ObtainSolutionStatus"
    [] p = "ObtainSolutionStatus" -> "ReportResults"
    [] p = "ReportResults" -> "PrintTimingInfo"
    [] p = "PrintTimingInfo" -> "done"

\* SolveAndReport and SetupTimerAndInterrupter: what runs when phase p has
\* returned.
AfterPhase(p, timing) ==
  CASE p = "InputExtras" -> "SetupInterrupter"
    [] p = "SetupInterrupter" -> "SetupTimer"
    [] p = "SetupTimer" -> "SolveAndReportIntermediateResults"
    [] p = "SolveAndReportIntermediateResults" -> "RecordSolveTime"
    [] p = "RecordSolveTime" -> "ObtainSolutionStatus"
    [] p = "ObtainSolutionStatus" -> "ReportResults"
    [] p = "ReportResults" -> IF timing THEN "PrintTimingInfo" ELSE "done"
    [] p = "PrintTimingInfo" -> "done"

----------------------------------------------------------------------------
(* What the solver library can answer, per scenario of the model *)

PrimalValues == {-(Scale + Scale \div 2), Scale + 1, Scale, Scale \div 2}

SeqsOf(S, n) == [1..n -> S]

UpToSeqsOf(S, n) == UNION {SeqsOf(S, k) : k \in 0..n}

\* The solution [1.4999999, 2.7, 3.0000001] in multiples of 1 / Scale: a
\* value just below one and a half, a fractional one, one just above three.
RoundingExample == <<Scale + Scale \div 2 - 1, 2 * Scale + 3, 3 * Scale + 1>>

\* Solutions of three variables: the example, one with a single fractional
\* value under an integer flag, and one that is integral under the flags.
ExampleSolutions ==
  {RoundingExample, <<Scale + 1, 2 * Scale + 3, 3 * Scale>>,
   <<Scale, 2 * Scale + 3, 3 * Scale>>}

NoNative ==
  [optimstatus |-> "OTHER", solcount |-> 0, stop |-> FALSE, niter |-> 0,
   nnodes |-> 0, extra |-> FALSE, objerr |-> FALSE, x |-> <<>>]

\* The states CPXmipopt can leave the solver in: CPXgetstat, the solution
\* pool, the interrupter, the counters, the message the Impl added, whether
\* CPXgetobjval fails, and CPXgetx (num_vars values, or none on error).
Natives(w, prob) ==
  CASE w = "lifecycle" ->
         [optimstatus : OptimStatuses, solcount : {0, 1}, stop : BOOLEAN,
          niter : {0, 1}, nnodes : {0, 1}, extra : BOOLEAN,
          objerr : BOOLEAN, x : {<<>>} \cup SeqsOf({Scale}, prob.nvars)]
    [] w = "rounding" ->
         {n \in [optimstatus : OptimStatuses, solcount : {0, 1},
                  stop : BOOLEAN, niter : {0}, nnodes : {0}, extra : {FALSE},
                  objerr : {FALSE},
                  x : {<<>>} \cup SeqsOf(PrimalValues, prob.nvars)] :
            n.optimstatus = "OTHER" \/ (n.solcount = 1 /\ ~n.stop)}
    [] w = "feasrelax" ->
         [optimstatus : {"OPTIMAL", "INFEASIBLE"}, solcount : {1},
          stop : {FALSE}, niter : {1}, nnodes : {0}, extra : {FALSE},
          objerr : {FALSE}, x : {<<>>}]
    [] w = "features" ->
         [optimstatus : {"OPTIMAL", "INFEASIBLE", "OTHER"}, solcount : {1},
          stop : {FALSE}, niter : {0}, nnodes : {0}, extra : {FALSE},
          objerr : {FALSE}, x : SeqsOf({Scale + 1}, prob.nvars)]
    [] w = "cancel" ->
         [optimstatus : {"OPTIMAL", "OTHER"}, solcount : {0, 1},
          stop : BOOLEAN, niter : {0}, nnodes : {0}, extra : {FALSE},
          objerr : {FALSE}, x : SeqsOf({Scale}, prob.nvars)]
    [] w = "message" ->
         [optimstatus : {"OPTIMAL", "INFEASIBLE"}, solcount : {1},
          stop : {FALSE}, niter : {0, 1}, nnodes : {0, 1}, extra : BOOLEAN,
          objerr : {FALSE}, x : {<<>>} \cup ExampleSolutions]

\* What Interrupter::Stop() can answer after the solve of run r: true when
\* a cancellation was requested in this run, false when none ever was, and
\* either when the only requests are those of earlier runs.
StopAnswers(flag, req, r) ==
  IF r \in req THEN {TRUE} ELSE IF flag = 1 THEN BOOLEAN ELSE {FALSE}

\* The states CPXmipopt can return in.  Where cancellation is modelled, the
\* problem is one the solver solves to optimality when left alone, and
\* CPLEX, which polls the flag given to CPXsetterminate, stops without a
\* status of its own when the flag is set.
SolveOutcomes(w, prob, flag, req, r) ==
  IF w = "cancel"
    THEN {n \in Natives(w, prob) :
            /\ n.optimstatus = (IF flag = 1 THEN "OTHER" ELSE "OPTIMAL")
            /\ n.stop \in StopAnswers(flag, req, r)}
    ELSE Natives(w, prob)

\* The solutions the solver can hand to ReportIntermediateSolution.
Intermediates(w, prob) ==
  IF w = "rounding" THEN SeqsOf({Scale + 1}, prob.nvars)
  ELSE SeqsOf({Scale}, prob.nvars)

\* Whether a CPLEX_CALL of the setup and of the solve can fail.
CallOutcomes(w) == IF w = "lifecycle" THEN BOOLEAN ELSE {TRUE}

----------------------------------------------------------------------------
(* The phases of SolveAndReport, one action each *)

Enter(p) == phases' = Append(phases, p)

\* Options registered whatever the features of the Impl.
OptionValuesUngated(im, feature, default, values) == values \cup {default}

\* The values an option can hold: the option is registered, and so can be
\* set, only when the Impl has the feature.
OptionValues(im, feature, default, values) ==
  IF ImplHasStdFeature(im, feature) THEN values \cup {default}
  ELSE {default}

\* The standard feature whose presence registers a stored option
\* (InitStandardOptions).
StoredOptionFeature(name) ==
  CASE name = "exportKappa_" -> "KAPPA"
    [] name \in {"feasRelax_", "lbpen_", "ubpen_", "rhspen_"} -> "FEAS_RELAX"
    [] name \in {"round_", "round_reptol_"} -> "WANT_ROUNDING"

\* The values the user gives a stored option in each world of the model.
StoredOptionInputs(w, name) ==
  CASE w \in {"lifecycle", "features"} /\ name = "exportKappa_" -> 1..3
    [] w \in {"message", "options"} /\ name = "exportKappa_" -> {1}
    [] w \in {"rounding", "message"} /\ name = "round_" -> 0..7
    [] w = "rounding" /\ name = "round_reptol_" -> {Scale \div 2}
    [] w = "feasrelax" /\ name = "feasRelax_" -> 0..1
    [] w = "feasrelax" /\ name = "lbpen_" -> {-1, 0, 1}
    [] w = "feasrelax" /\ name \in {"ubpen_", "rhspen_"} -> {-1, 1}
    [] w = "features" /\ name = "feasRelax_" -> {1}
    [] w = "features" /\ name = "round_" -> {7}
    [] w = "cancel" /\ name = "round_" -> {1}
    [] w = "options" /\ name = "round_" -> {5}
    [] w = "options" /\ name = "feasRelax_" -> {2}
    [] OTHER -> {}

\* The values a stored option of the Impl can hold in the world w.
StoredOptionValues(w, im, name) ==
  OptionValues(im, StoredOptionFeature(name), DefaultOptions[name],
               StoredOptionInputs(w, name))

\* storedOptions_ after any sets of the stored options.
StoredOptionsOf(w, im) ==
  [exportKappa_ : StoredOptionValues(w, im, "exportKappa_"),
   feasRelax_ : StoredOptionValues(w, im, "feasRelax_"),
   lbpen_ : StoredOptionValues(w, im, "lbpen_"),
   ubpen_ : StoredOptionValues(w, im, "ubpen_"),
   rhspen_ : StoredOptionValues(w, im, "rhspen_"),
   round_ : StoredOptionValues(w, im, "round_"),
   round_reptol_ : StoredOptionValues(w, im, "round_reptol_")]

\* StoredOption<Value>::SetValue: value_ = v, value_ being the member of
\* storedOptions_ the option was registered with.  The option exists once
\* InitStandardOptions has registered it, and it is set while the options of
\* the user are parsed, between the calls of the backend.
SetStoredOption(name, v) ==
  /\ pc = "idle"
  /\ optpc # "constructed"
  /\ storedOptions_' = [storedOptions_ EXCEPT ![name] = v]
  /\ UNCHANGED <<regVars, optVars, cplexVars, problem, solver_, world, pc,
                 phases, feasRelaxIO_, fills, native, solve_code_,
                 solve_status_, reported, invoked, rounding, solve_error>>

StartSolveAndReport ==
  /\ pc = "idle"
  /\ pc' = "InputExtras"
  /\ UNCHANGED <<regVars, optVars, cplexVars, storedOptions_, solver_,
                 problem, world, phases, feasRelaxIO_, fills, native,
                 solve_code_, solve_status_, reported, invoked, rounding,
                 solve_error>>

\* InputExtras.  A write beyond the end of a penalty vector is undefined:
\* the run crashes, or goes on with the vectors as the stray writes left
\* them.
InputExtras ==
  /\ pc = "InputExtras"
  /\ Enter("InputExtras")
  /\ LET r == InputStdExtras(impl, storedOptions_, solver_, problem,
                             feasRelaxIO_)
     IN  /\ invoked' = invoked \cup r.invoked
         /\ IF ~r.ok
              THEN /\ pc' = "aborted"
                   /\ solve_error' = r.what
                   /\ UNCHANGED <<feasRelaxIO_, fills>>
              ELSE \E fr \in r.fr :
                     \E crash \in (IF fr.oob # {} THEN BOOLEAN
                                   ELSE {FALSE}) :
                       /\ pc' = IF crash THEN "crashed"
                                ELSE AfterPhase("InputExtras",
                                                solver_.timing)
                       /\ feasRelaxIO_' = fr.io
                       /\ fills' = fr.fills
                       /\ UNCHANGED solve_error
  /\ UNCHANGED <<regVars, optVars, cplexVars, storedOptions_, solver_,
                 problem, world, native, solve_code_, solve_status_, reported,
                 rounding>>

\* SetupInterrupter: CplexBackend::SetInterrupter.  It sets InterruptCplex
\* as the interrupter's handler and gives CPLEX the address of
\* terminate_flag; the flag itself is not written.  The CPLEX_CALL can throw.
SetupInterrupter ==
  /\ pc = "SetupInterrupter"
  /\ Enter("SetupInterrupter")
  /\ interrupt_handler' = "InterruptCplex"
  /\ \E ok \in CallOutcomes(world) :
       IF ok THEN /\ pc' = AfterPhase("SetupInterrupter", solver_.timing)
                  /\ UNCHANGED solve_error
       ELSE /\ pc' = "aborted"
            /\ solve_error' = <<"CPXsetterminate">>
  /\ UNCHANGED <<regVars, optVars, terminate_flag, run_no, requested, lpVars,
                 storedOptions_, solver_, problem, world, feasRelaxIO_,
                 fills, native, solve_code_, solve_status_, reported,
                 invoked, rounding>>

SetupTimer ==
  /\ pc = "SetupTimer"
  /\ Enter("SetupTimer")
  /\ pc' = AfterPhase("SetupTimer", solver_.timing)
  /\ UNCHANGED <<regVars, optVars, cplexVars, storedOptions_, solver_,
                 problem, world, feasRelaxIO_, fills, native, solve_code_,
                 solve_status_, reported, invoked, rounding, solve_error>>

\* SolveAndReportIntermediateResults is entered: the solver runs.
SolveAndReportIntermediateResults ==
  /\ pc = "SolveAndReportIntermediateResults"
  /\ Enter("SolveAndReportIntermediateResults")
  /\ pc' = "solving"
  /\ UNCHANGED <<regVars, optVars, cplexVars, storedOptions_, solver_,
                 problem, world, feasRelaxIO_, fills, native, solve_code_,
                 solve_status_, reported, invoked, rounding, solve_error>>

\* The running solver calls back with an intermediate solution.
ReportIntermediateSolution ==
  /\ pc = "solving"
  /\ ImplHasStdFeature(impl, "MULTISOL")
  /\ Len(reported) < MaxIntermediate
  /\ \E solution \in Intermediates(world, problem) :
       LET r == ReportIntermediateSolutionOutcome(
                  impl, storedOptions_, problem, solve_code_, solution)
       IN  /\ reported' = reported \o r.calls
           /\ solve_code_' = r.code
           /\ rounding' = r.rounding
  /\ UNCHANGED <<regVars, optVars, cplexVars, storedOptions_, solver_,
                 problem, world, pc, phases, feasRelaxIO_, fills, native,
                 solve_status_, invoked, solve_error>>

\* SolveAndReportIntermediateResults returns, or its CPLEX_CALL throws.
SolveReturns ==
  /\ pc = "solving"
  /\ \E ok \in CallOutcomes(world) :
       IF ok
         THEN /\ \E nat \in SolveOutcomes(world, problem, terminate_flag,
                                          requested, run_no) : native' = nat
              /\ pc' = AfterPhase("SolveAndReportIntermediateResults",
                                  solver_.timing)
              /\ UNCHANGED solve_error
         ELSE /\ pc' = "aborted"
              /\ solve_error' = <<"CPXmipopt">>
              /\ UNCHANGED native
  /\ UNCHANGED <<regVars, optVars, cplexVars, storedOptions_, solver_,
                 problem, world, phases, feasRelaxIO_, fills, solve_code_,
                 solve_status_, reported, invoked, rounding>>

RecordSolveTime ==
  /\ pc = "RecordSolveTime"
  /\ Enter("RecordSolveTime")
  /\ pc' = AfterPhase("RecordSolveTime", solver_.timing)
  /\ UNCHANGED <<regVars, optVars, cplexVars, storedOptions_, solver_,
                 problem, world, feasRelaxIO_, fills, native, solve_code_,
                 solve_status_, reported, invoked, rounding, solve_error>>

ObtainSolutionStatus ==
  /\ pc = "ObtainSolutionStatus"
  /\ Enter("ObtainSolutionStatus")
  /\ solve_code_' = ConvertSolutionStatus(native).code
  /\ solve_status_' = ConvertSolutionStatus(native).text
  /\ pc' = AfterPhase("ObtainSolutionStatus", solver_.timing)
  /\ UNCHANGED <<regVars, optVars, cplexVars, storedOptions_, solver_,
                 problem, world, feasRelaxIO_, fills, native, reported,
                 invoked, rounding, solve_error>>

ReportResults ==
  /\ pc = "ReportResults"
  /\ Enter("ReportResults")
  /\ LET r == ReportResultsOutcome(impl, storedOptions_, solver_, problem,
                                   feasRelaxIO_, native, solve_code_,
                                   solve_status_)
     IN  /\ reported' = reported \o r.calls
         /\ invoked' = invoked \cup r.invoked
         /\ solve_code_' = r.code
         /\ rounding' = IF r.rounding.called THEN r.rounding ELSE rounding
         /\ IF r.ok
              THEN /\ pc' = AfterPhase("ReportResults", solver_.timing)
                   /\ UNCHANGED solve_error
              ELSE /\ pc' = "aborted"
                   /\ solve_error' = r.what
  /\ UNCHANGED <<regVars, optVars, cplexVars, storedOptions_, solver_,
                 problem, world, feasRelaxIO_, fills, native, solve_status_>>

PrintTimingInfo ==
  /\ pc = "PrintTimingInfo"
  /\ Enter("PrintTimingInfo")
  /\ pc' = AfterPhase("PrintTimingInfo", solver_.timing)
  /\ UNCHANGED <<regVars, optVars, cplexVars, storedOptions_, solver_,
                 problem, world, feasRelaxIO_, fills, native, solve_code_,
                 solve_status_, reported, invoked, rounding, solve_error>>

LifecycleNext ==
  \/ StartSolveAndReport
  \/ InputExtras
  \/ SetupInterrupter
  \/ SetupTimer
  \/ SolveAndReportIntermediateResults
  \/ ReportIntermediateSolution
  \/ SolveReturns
  \/ RecordSolveTime
  \/ ObtainSolutionStatus
  \/ ReportResults
  \/ PrintTimingInfo
  \/ \E name \in DOMAIN DefaultOptions :
       \E v \in StoredOptionValues(world, impl, name) :
         SetStoredOption(name, v)

\* A cancellation is requested: the interrupter calls its handler.
\* InterruptCplex sets terminate_flag = 1.
Interrupt ==
  /\ interrupt_handler = "InterruptCplex"
  /\ run_no \notin requested
  /\ terminate_flag' = 1
  /\ requested' = requested \cup {run_no}
  /\ UNCHANGED <<regVars, lifeVars, optVars, interrupt_handler, run_no,
                 lpVars>>

\* SolveAndReport is called again in the same process.  What the model
\* logs of a run starts anew; the members of the backend and the statics of
\* cplexbackend.cc are as the run before left them.
SolveAgain ==
  /\ pc \in {"done", "aborted"}
  /\ run_no < MaxRuns
  /\ run_no' = run_no + 1
  /\ pc' = "idle"
  /\ phases' = <<>>
  /\ fills' = <<>>
  /\ reported' = <<>>
  /\ invoked' = {}
  /\ rounding' = NoRounding
  /\ solve_error' = <<>>
  /\ UNCHANGED <<regVars, optVars, terminate_flag, interrupt_handler,
                 requested, lpVars, storedOptions_, solver_, problem, world,
                 feasRelaxIO_, native, solve_code_, solve_status_>>

CancelNext ==
  \/ LifecycleNext
  \/ Interrupt
  \/ SolveAgain

----------------------------------------------------------------------------
(* CplexBackend builds its problem: AddVariable, SetLinearObjective and    *)
(* the AddConstraint overloads                                             *)

\* The bounds a linear constraint can have.
LowerBounds == {MinusInfinity, -1, 0, 2}
UpperBounds == {-1, 0, 2, Infinity}

\* The variables, the objectives and the indicator constraints the builder
\* can hand over.
Variables ==
  { [lb |-> 0, ub |-> 1, type |-> "CONTINUOUS"],
    [lb |-> 0, ub |-> 5, type |-> "INTEGER"] }

LinearObjectives ==
  { [obj_sense |-> "MAX", c |-> <<3>>, v |-> <<0>>],
    [obj_sense |-> "MIN", c |-> <<1, 2>>, v |-> <<0, 1>>] }

IndicatorConstraints ==
  { Ind(1, 1, <<1>>, <<0>>, 2), Ind(0, 0, <<1, 1>>, <<0, 1>>, 1) }

\* CplexBackend::AddVariable: CPXnewcols gets one column with its bounds and
\* its type, CPX_CONTINUOUS or CPX_INTEGER.  NumberOfVariables()
\* (CPXgetnumcols) counts it, and a CPLEX problem whose columns carry types
\* is a MIP for CPXgetprobtype, which IsMIP() asks.
AddVariable(var) ==
  /\ Len(cols) < MaxCols
  /\ cols' = Append(cols, [lb |-> var.lb, ub |-> var.ub,
                           vtype |-> IF var.type = "CONTINUOUS" THEN "C"
                                     ELSE "I"])
  /\ problem' = [problem EXCEPT !.nvars = @ + 1, !.isMIP = TRUE]
  /\ UNCHANGED <<regVars, runVars, optVars, interruptVars, rows,
                 indconstrs, objective>>

\* The coefficients CPXchgobj leaves: those of the listed variables are
\* replaced, the others stay.
ChangedObjective(coefs, lo) ==
  LET listed == {lo.v[k] : k \in 1..Len(lo.v)}
      last(j) == CHOOSE k \in 1..Len(lo.v) :
                   /\ lo.v[k] = j
                   /\ \A h \in 1..Len(lo.v) : lo.v[h] = j => h <= k
  IN  [j \in listed \cup DOMAIN coefs |->
         IF j \in listed THEN lo.c[last(j)] ELSE coefs[j]]

\* CplexBackend::SetLinearObjective(iobj, lo): for the first objective
\* CPXchgobjsen and CPXchgobj; nothing for another one.
SetLinearObjective(iobj, lo) ==
  /\ IF 1 > iobj
       THEN objective' =
              [sense |-> IF lo.obj_sense = "MAX" THEN "CPX_MAX"
                         ELSE "CPX_MIN",
               coefs |-> ChangedObjective(objective.coefs, lo)]
     ELSE UNCHANGED objective
  /\ UNCHANGED <<regVars, lifeVars, optVars, interruptVars, rows, cols,
                 indconstrs>>

\* CplexBackend::AddConstraint(const LinearConstraint&)
AddConstraintLinear(lc) ==
  /\ Len(rows) < MaxRows
  /\ HandToSolver(<<lc>>)
  /\ UNCHANGED regVars

\* CplexBackend::AddConstraint(const IndicatorConstraintLinLE&)
AddConstraintIndicator(ic) ==
  /\ Len(indconstrs) < MaxInds
  /\ HandToSolver(<<ic>>)
  /\ UNCHANGED regVars

RowsNext ==
  \/ \E var \in Variables : AddVariable(var)
  \/ \E iobj \in 0..1, lo \in LinearObjectives : SetLinearObjective(iobj, lo)
  \/ \E lb \in LowerBounds, ub \in UpperBounds :
       AddConstraintLinear(Con(LC, <<1, 2>>, <<0, 1>>, lb, ub, NoResultVar))
  \/ \E ic \in IndicatorConstraints : AddConstraintIndicator(ic)

----------------------------------------------------------------------------
(* Solver options: the accessor, the records and their replay *)

MIP_Display == "CPXPARAM_MIP_Display"
Threads == "CPXPARAM_Threads"
MIPGap == "CPXPARAM_MIP_Tolerances_MIPGap"
TimeLimit == "CPXPARAM_TimeLimit"

\* The native parameters the options of CplexBackend are bound to:
\* tech:outlev and tech:threads to integer parameters, mip:gap and lim:time
\* to double parameters.
IntParams == {MIP_Display, Threads}
DblParams == {MIPGap, TimeLimit}
ParamKeys == IntParams \cup DblParams

\* The values a native parameter can hold.
ParamValues == 0..MaxParamValue

\* CPXsetintparam, CPXsetdblparam: a value the parameter cannot hold is
\* refused.
NativeAccepts(key, v) == v \in ParamValues

\* CplexBackend::SetSolverOption(int key, int value) and (int key, double
\* value): the parameters after it, or the exception of its CPLEX_CALL.
SetSolverOption(p, key, v) ==
  IF NativeAccepts(key, v) THEN Ok([p EXCEPT ![key] = v])
  ELSE Throw(<<IF key \in IntParams THEN "CPXsetintparam"
               ELSE "CPXsetdblparam">>)

\* The setter the accessor builds: [=]() { pBackend->SetSolverOption(i, v); }
Setter(key, v) == [key |-> key, value |-> v]

\* RecordSolverOption(sor): slvOptionRecords_.push_back(sor)
RecordSolverOption(records, sor) == Append(records, sor)

\* An accessor that records the setter before it runs it.
SolverOptionAccessorSetRecordFirst(p, records, key, v) ==
  LET setter == Setter(key, v)
      run == SetSolverOption(p, setter.key, setter.value)
  IN  [ok |-> run.ok, what |-> run.what,
       params |-> IF run.ok THEN run.val ELSE p,
       records |-> RecordSolverOption(records, setter)]

\* SolverOptionAccessor::set(opt, v, i): run the setter now, then record it.
SolverOptionAccessorSet(p, records, key, v) ==
  LET setter == Setter(key, v)
      run == SetSolverOption(p, setter.key, setter.value)
  IN  IF run.ok
        THEN [ok |-> TRUE, what |-> <<>>, params |-> run.val,
              records |-> RecordSolverOption(records, setter)]
        ELSE [ok |-> FALSE, what |-> run.what, params |-> p,
              records |-> records]

\* The loop for (auto f: slvOptionRecords_) f(), from record i on: the
\* parameters, the setters invoked, and whether one of them threw.
RECURSIVE ReplayLoop(_, _, _)
ReplayLoop(st, records, i) ==
  IF i > Len(records) THEN st
  ELSE LET run == SetSolverOption(st.params, records[i].key,
                                  records[i].value)
       IN  IF run.ok
             THEN ReplayLoop([st EXCEPT !.params = run.val,
                                        !.run = Append(@, records[i])],
                             records, i + 1)
             ELSE [st EXCEPT !.ok = FALSE, !.what = run.what,
                             !.run = Append(@, records[i])]

\* A replay that runs the newest record only.
ReplaySolverOptionsLastOnly(p, records) ==
  ReplayLoop([params |-> p, run |-> <<>>, ok |-> TRUE, what |-> <<>>],
             records, IF records = <<>> THEN 1 ELSE Len(records))

\* ReplaySolverOptions()
ReplaySolverOptions(p, records) ==
  ReplayLoop([params |-> p, run |-> <<>>, ok |-> TRUE, what |-> <<>>],
             records, 1)

\* CplexBackend::InitCustomOptions: the options are registered, and
\* SetSolverOption(CPXPARAM_MIP_Display, 0) is called on the backend itself.
InitCustomOptions ==
  /\ optpc = "constructed"
  /\ params' = SetSolverOption(params, MIP_Display, 0).val
  /\ optpc' = "configuring"
  /\ UNCHANGED <<regVars, lifeVars, cplexVars, env_defaults, slvOptionRecords_, sets,
                 replays, snapshot, option_error>>

\* An option bound to a native parameter is set through the registry.
SetOption(key, v) ==
  /\ optpc \in {"configuring", "reset", "replayed"}
  /\ Len(sets) < MaxOptionSets
  /\ LET r == SolverOptionAccessorSet(params, slvOptionRecords_, key, v)
     IN  /\ params' = r.params
         /\ slvOptionRecords_' = r.records
         /\ sets' = Append(sets, [key |-> key, value |-> v, ok |-> r.ok])
         /\ option_error' = r.what
  /\ optpc' = "configuring"
  /\ UNCHANGED <<regVars, lifeVars, cplexVars, env_defaults, replays, snapshot>>

\* The solver environment is opened anew: every parameter is at its native
\* default.
ResetEnvironment ==
  /\ optpc \in {"configuring", "replayed"}
  /\ snapshot = <<>>
  /\ snapshot' = <<[params |-> params, nsets |-> Len(sets)]>>
  /\ params' = env_defaults
  /\ optpc' = "reset"
  /\ UNCHANGED <<regVars, lifeVars, cplexVars, env_defaults, slvOptionRecords_, sets,
                 replays, option_error>>

\* ReplaySolverOptions is called.
ReplayOptions ==
  /\ optpc \in {"configuring", "reset", "replayed"}
  /\ Len(replays) < MaxReplays
  /\ LET r == ReplaySolverOptions(params, slvOptionRecords_)
     IN  /\ params' = r.params
         /\ replays' = Append(replays, [before |-> slvOptionRecords_,
                                        run |-> r.run])
         /\ option_error' = r.what
  /\ optpc' = "replayed"
  /\ UNCHANGED <<regVars, lifeVars, cplexVars, env_defaults, slvOptionRecords_, sets,
                 snapshot>>

\* The values the user gives an option: two the parameter can hold and one
\* it cannot.
OptionInputs == {0, 1, MaxParamValue + 1}

OptionsNext ==
  \/ InitCustomOptions
  \/ \E key \in ParamKeys, v \in OptionInputs : SetOption(key, v)
  \/ ResetEnvironment
  \/ ReplayOptions
  \/ \E name \in DOMAIN DefaultOptions :
       \E v \in StoredOptionValues(world, impl, name) :
         SetStoredOption(name, v)

\* The options of a backend nobody configures.
OptionsIdle ==
  /\ env_defaults = [k \in ParamKeys |-> 0]
  /\ params = [k \in ParamKeys |-> 0]
  /\ slvOptionRecords_ = <<>>
  /\ sets = <<>>
  /\ replays = <<>>
  /\ snapshot = <<>>
  /\ optpc = "configuring"
  /\ option_error = <<>>

----------------------------------------------------------------------------
(* Initial states *)

NoSuffixes == [k \in SuffixKeys |-> <<>>]

IdleProblem ==
  [nvars |-> 0, ncons |-> 0, nobjs |-> 0, isMIP |-> FALSE, IsVarInt |-> <<>>,
   suffixes |-> NoSuffixes]

\* The CPLEX library as the process starts: terminate_flag = 0, no handler
\* set, and the empty problem of CPXcreateprob.
CplexIdle ==
  /\ terminate_flag = 0
  /\ interrupt_handler = ""
  /\ run_no = 1
  /\ requested = {}
  /\ rows = <<>>
  /\ cols = <<>>
  /\ indconstrs = <<>>
  /\ objective = [sense |-> "CPX_MIN", coefs |-> <<>>]

\* The lifecycle before SolveAndReport, with nothing in the backend's model.
LifecycleIdle ==
  /\ pc = "idle"
  /\ phases = <<>>
  /\ feasRelaxIO_ = DefaultFeasrelaxIO
  /\ fills = <<>>
  /\ native = NoNative
  /\ solve_code_ = NOT_CHECKED
  /\ solve_status_ = ""
  /\ reported = <<>>
  /\ invoked = {}
  /\ rounding = NoRounding
  /\ solve_error = <<>>

\* The registry and the backend's model before any constraint is added.
RegistryEmpty ==
  /\ keepers = <<>>
  /\ calls = <<>>
  /\ cursor = 1
  /\ drv = "idle"
  /\ pass = 0
  /\ registry_error = <<>>
  /\ ingested = <<>>
  /\ orig_lin_constr_ = <<>>
  /\ n_alg_constr_ = 0

RegistryInit ==
  /\ impl \in Impls
  /\ RegistryEmpty
  /\ CplexIdle
  /\ storedOptions_ = DefaultOptions
  /\ solver_ = [timing |-> FALSE, multiobj |-> FALSE]
  /\ problem = IdleProblem
  /\ world = "registry"
  /\ LifecycleIdle
  /\ OptionsIdle

RegistryNext ==
  \/ \E con \in InputConstraints : Register(con)
  \/ \E k \in 1..Len(keepers) : RemoveKeeper(k)
  \/ StartDriver
  \/ DriverStep
  \/ FinishDriver
  \/ RevisitRegistry
  \/ \E con \in AlgebraicCons : AddAlgebraicConstraint(con)

SpecRegistry == RegistryInit /\ [][RegistryNext]_vars

----------------------------------------------------------------------------
(* Properties of the registry *)

\* The driver has examined keeper k at least once.
DriverPassed(k) == drv # "idle" /\ (pass > 1 \/ k < cursor \/ drv = "done")

\* C2: an instance of a kind the backend declares NotAccepted is never passed
\* to AddToBackend, and once the driver has examined it, ConvertWith has been
\* called on it exactly once, unless it had been removed before the driver
\* reached it.
C2_NotAcceptedIsConverted ==
  \A k \in 1..Len(keepers) :
    AcceptanceLevel(impl, keepers[k].cons_.kind) = "NotAccepted" =>
      /\ Count(calls[k], "AddToBackend") = 0
      /\ DriverPassed(k) =>
            /\ calls[k] # <<>>
            /\ \/ Head(calls[k]) = "ConvertWith"
                  /\ Count(calls[k], "ConvertWith") = 1
               \/ Head(calls[k]) = "Remove"
                  /\ Count(calls[k], "ConvertWith") = 0

\* C2 witness: the driver has finished and converted a NotAccepted instance.
C2_Witness ==
  /\ drv = "done"
  /\ \E k \in 1..Len(keepers) :
       /\ AcceptanceLevel(impl, keepers[k].cons_.kind) = "NotAccepted"
       /\ Count(calls[k], "ConvertWith") = 1

\* C3: on no keeper does a ConvertWith or an AddToBackend follow a Remove.
C3_NothingAfterRemove ==
  \A k \in 1..Len(keepers) :
    \A i, j \in 1..Len(calls[k]) :
      (i < j /\ calls[k][i] = "Remove") => calls[k][j] = "Remove"

\* C3 witness: the driver walks the registry a second time and has gone past
\* a keeper that was removed, and that was converted before.
C3_Witness ==
  /\ pass = 2
  /\ \E k \in 1..Len(keepers) :
       /\ k < cursor
       /\ Count(calls[k], "Remove") > 0
       /\ Count(calls[k], "ConvertWith") > 0

\* C4: a keeper's removed flag is true exactly when Remove() has been called
\* on it: false when created, true from the first Remove() on, whatever
\* else is called on the keeper and however often Remove() is repeated.
C4_RemovedIffRemoveCalled ==
  \A k \in 1..Len(keepers) :
    keepers[k].is_removed_ = (Count(calls[k], "Remove") > 0)

\* C4 witness: Remove() was called twice on a keeper that had been added to
\* the backend.
C4_Witness ==
  \E k \in 1..Len(keepers) :
    /\ Count(calls[k], "Remove") = 2
    /\ Count(calls[k], "AddToBackend") > 0
    /\ keepers[k].is_removed_

\* The case of C5: a defining linear constraint at a backend that does not
\* accept its kind and recommends LinearConstraint, after the driver loop,
\* the constraint not removed by anybody before the driver reached it.
C5_Case(k) ==
  /\ drv = "done"
  /\ keepers[k].cons_.kind = LDC
  /\ AcceptanceLevel(impl, LDC) = "NotAccepted"
  /\ AcceptanceLevel(impl, LC) = "Recommended"
  /\ (calls[k] # <<>> => Head(calls[k]) # "Remove")

Rewrites(k) == {j \in 1..Len(keepers) : keepers[j].origin = k}

\* The constraints the backend holds before entry i of its log.
PositionOf(i) ==
  Cardinality({h \in 1..(i - 1) : ingested[h].via # "AddAlgebraicConstraint!"})

Range(s) == {s[i] : i \in 1..Len(s)}

\* C5 (as amended): in that case the defining constraint is removed and never
\* handed to the backend; exactly one constraint replaces it, a live
\* LinearConstraint with the same coefficients, variables and bounds and no
\* result variable, which is handed to the backend unless somebody removed
\* it; and orig_lin_constr_ has no entry for it: the list has one entry per
\* linear constraint added by AddAlgebraicConstraint and nothing else.
C5_LinearRewriteNotOriginal ==
  \A k \in 1..Len(keepers) :
    C5_Case(k) =>
      /\ keepers[k].is_removed_
      /\ \A i \in 1..Len(ingested) : ingested[i].keeper # k
      /\ Cardinality(Rewrites(k)) = 1
      /\ \A j \in Rewrites(k) :
           /\ keepers[j].cons_ =
                [kind |-> LC, c |-> keepers[k].cons_.c,
                 v |-> keepers[k].cons_.v, lb |-> keepers[k].cons_.lb,
                 ub |-> keepers[k].cons_.ub, rv |-> -1]
           /\ Count(calls[j], "Remove") = 0 =>
                /\ ~keepers[j].is_removed_
                /\ \E i \in 1..Len(ingested) :
                     /\ ingested[i].keeper = j
                     /\ ingested[i].con = keepers[j].cons_
      /\ Len(orig_lin_constr_) =
           Cardinality({i \in 1..Len(ingested) :
                          /\ ingested[i].via = "AddAlgebraicConstraint"
                          /\ ~ingested[i].con.nonlinear
                          /\ ~ingested[i].con.quadratic})

\* C5 witness: the case, with the rewrite handed to the backend, beside a
\* linear constraint that came through AddAlgebraicConstraint.
C5_Witness ==
  \E k \in 1..Len(keepers) :
    /\ C5_Case(k)
    /\ \E j \in Rewrites(k) : \E i \in 1..Len(ingested) : ingested[i].keeper = j
    /\ Len(orig_lin_constr_) = 1

\* C5 as claimed: in that case the position of the rewritten constraint in
\* the backend is recorded in orig_lin_constr_.
C5_AsClaimed ==
  \A k \in 1..Len(keepers) :
    C5_Case(k) =>
      \A j \in Rewrites(k) :
        \A i \in 1..Len(ingested) :
          ingested[i].keeper = j => PositionOf(i) \in Range(orig_lin_constr_)

\* The entries of the backend's log that are algebraic constraints
\* AddAlgebraicConstraint added, and those of them that are linear.
AlgebraicAdds ==
  {i \in 1..Len(ingested) : ingested[i].via = "AddAlgebraicConstraint"}

LinearAdds ==
  {i \in AlgebraicAdds :
     ~ingested[i].con.nonlinear /\ ~ingested[i].con.quadratic}

\* C27 as stated: the list of original linear constraints is strictly
\* increasing, has one entry per linear constraint added, and the entry of
\* a linear constraint is the number of algebraic constraints of any kind
\* added before it; a failed add leaves no entry.
C27_AsClaimed ==
  /\ \A a, b \in 1..Len(orig_lin_constr_) :
       a < b => orig_lin_constr_[a] < orig_lin_constr_[b]
  /\ Len(orig_lin_constr_) = Cardinality(LinearAdds)
  /\ \A i \in LinearAdds :
       orig_lin_constr_[Cardinality({h \in LinearAdds : h <= i})] =
         Cardinality({h \in AlgebraicAdds : h < i})

\* The driver's step in which ConvertWith on the keeper under the cursor
\* throws.
ConversionFails ==
  /\ drv = "running"
  /\ drv' = "failed"
  /\ calls'[cursor] = Append(calls[cursor], "ConvertWith")

\* The driver has stopped at a conversion that threw, and nothing was called
\* on the keeper since.
ConversionFailed ==
  /\ drv = "failed"
  /\ cursor <= Len(keepers)
  /\ calls[cursor] # <<>>
  /\ calls[cursor][Len(calls[cursor])] = "ConvertWith"

\* C23 (as amended): a failure raised by the converter during ConvertWith is
\* rethrown at the keeper with the message '<ConverterName>: <cause>', the
\* cause being the message of the converter's own exception, which for the
\* default Convert is 'Not converting constraint <kind>'; no kind stands
\* between the converter's name and the cause.  The failed conversion
\* changes no keeper (neither the removed flag nor the constraint), adds no
\* keeper and hands nothing to the backend, and ends the driver.
C23_ConversionFailureWrapped ==
  [][ConversionFails =>
        /\ registry_error' =
             <<ConverterName, ": ">> \o Convert(keepers[cursor].cons_).what
        /\ registry_error' =
             <<ConverterName, ": ", "Not converting constraint ",
               keepers[cursor].cons_.kind>>
        /\ keepers' = keepers
        /\ ~keepers'[cursor].is_removed_
        /\ ingested' = ingested
        /\ cursor' = cursor]_vars

\* The driver has failed at an indicator constraint of a backend that
\* neither accepts nor converts it; the keeper is live and holds it.
C23_Witness ==
  /\ ConversionFailed
  /\ keepers[cursor].cons_.kind = IND
  /\ ~keepers[cursor].is_removed_
  /\ registry_error =
       <<ConverterName, ": ", "Not converting constraint ", IND>>

\* C23 as stated: the message of a failed conversion has the form
\* '<ConverterName>: <constraint kind>: <cause>'.
C23_AsClaimed ==
  ConversionFailed =>
    /\ Len(registry_error) > 4
    /\ registry_error[1] = ConverterName
    /\ registry_error[2] = ": "
    /\ registry_error[3] = keepers[cursor].cons_.kind
    /\ registry_error[4] = ": "

----------------------------------------------------------------------------
(* The solve lifecycle: specifications *)

\* The classes that can be solved with: they add linear constraints.
SolvableImpls == {CplexBackendImpl, FullBackendImpl}

\* Any outcome of the solver, with the kappa and multiobj options.
LifecycleInit ==
  /\ impl \in SolvableImpls
  /\ RegistryEmpty
  /\ CplexIdle
  /\ storedOptions_ \in StoredOptionsOf("lifecycle", impl)
  /\ \E t \in BOOLEAN, mo \in OptionValues(impl, "MULTIOBJ", FALSE, {TRUE}) :
       solver_ = [timing |-> t, multiobj |-> mo]
  /\ \E no \in 0..2 :
       problem = [IdleProblem EXCEPT !.nvars = 1, !.ncons = 1, !.nobjs = no,
                                     !.IsVarInt = <<FALSE>>]
  /\ world = "lifecycle"
  /\ LifecycleIdle
  /\ OptionsIdle

Spec == LifecycleInit /\ [][LifecycleNext]_vars

\* A MIP solved under every value of mip:round.
RoundingInit ==
  /\ impl \in SolvableImpls
  /\ RegistryEmpty
  /\ CplexIdle
  /\ storedOptions_ \in StoredOptionsOf("rounding", impl)
  /\ solver_ = [timing |-> TRUE, multiobj |-> FALSE]
  /\ \E nv \in 1..MaxVars, fInt \in UpToSeqsOf(BOOLEAN, MaxVars) :
       problem = [IdleProblem EXCEPT !.nvars = nv, !.ncons = 1, !.nobjs = 1,
                                     !.isMIP = TRUE, !.IsVarInt = fInt]
  /\ world = "rounding"
  /\ LifecycleIdle
  /\ OptionsIdle

SpecRounding == RoundingInit /\ [][LifecycleNext]_vars

\* A problem with penalty suffixes, under the feasibility relaxation options.
FeasRelaxInit ==
  /\ impl = FullBackendImpl
  /\ RegistryEmpty
  /\ CplexIdle
  /\ storedOptions_ \in StoredOptionsOf("feasrelax", impl)
  /\ solver_ = [timing |-> TRUE, multiobj |-> FALSE]
  /\ \E nv \in {MaxEntities - 1, MaxEntities},
        vl \in UpToSeqsOf({-1, 2}, MaxEntities),
        vu \in {<<>>, <<0>>}, cl \in {<<>>, <<1>>, <<1, 0>>},
        cr \in {<<>>, <<3>>} :
       /\ Len(cl) > 1 => vl = <<2>> /\ vu = <<0>>
       /\ problem = [IdleProblem EXCEPT
                       !.nvars = nv, !.ncons = 1, !.nobjs = 1,
                       !.IsVarInt = [i \in 1..nv |-> FALSE],
                       !.suffixes = (<<"lbpen", "VAR">> :> vl)
                                      @@ (<<"ubpen", "VAR">> :> vu)
                                      @@ (<<"lbpen", "CON">> :> cl)
                                      @@ (<<"rhspen", "CON">> :> cr)]
  /\ world = "feasrelax"
  /\ LifecycleIdle
  /\ OptionsIdle

SpecFeasRelax == FeasRelaxInit /\ [][LifecycleNext]_vars

----------------------------------------------------------------------------
(* Properties of the solve lifecycle *)

PhaseOrder(timing) ==
  <<"InputExtras", "SetupInterrupter", "SetupTimer",
    "SolveAndReportIntermediateResults", "RecordSolveTime",
    "ObtainSolutionStatus", "ReportResults">>
    \o (IF timing THEN <<"PrintTimingInfo">> ELSE <<>>)

IsPrefix(s, t) == Len(s) <= Len(t) /\ \A i \in 1..Len(s) : s[i] = t[i]

Running == pc \notin {"idle", "done", "aborted", "crashed"}

\* C1: in every run of SolveAndReport the phases entered so far are an
\* initial part of InputExtras, SetupInterrupter, SetupTimer,
\* SolveAndReportIntermediateResults, RecordSolveTime, ObtainSolutionStatus,
\* ReportResults, and PrintTimingInfo exactly when timing() is set: each
\* phase once, none before its predecessor has returned; the phase that runs
\* next is the next of this order, and a run that completes has entered all
\* of them.
C1_PhasesInOrder ==
  /\ IsPrefix(phases, PhaseOrder(solver_.timing))
  /\ pc = "done" => phases = PhaseOrder(solver_.timing)
  /\ Running /\ pc # "solving" =>
       /\ Len(phases) < Len(PhaseOrder(solver_.timing))
       /\ pc = PhaseOrder(solver_.timing)[Len(phases) + 1]
  /\ pc = "solving" =>
       phases[Len(phases)] = "SolveAndReportIntermediateResults"

C1_Witness ==
  /\ pc = "done"
  /\ solver_.timing
  /\ Len(phases) = 8
  /\ phases[8] = "PrintTimingInfo"

\* The entry a fill leaves at i: the suffix value when there is one, else the
\* default; a negative number of either stands for Infinity.
FilledEntry(f, i) ==
  LET v == IF i <= Len(f.suf_pen) THEN f.suf_pen[i] ELSE f.pen
  IN  IF v < 0 THEN Infinity ELSE v

\* C6 (as amended): for a suffix array of at most n entries,
\* FillFeasRelaxPenalty(suffix, default, n) gives the empty array if the
\* suffix is empty and the default negative; otherwise it gives exactly n
\* entries, entry i being the suffix value at i when the suffix has one and
\* the default when it has not, with Infinity in the place of a negative
\* value of either.
C6_FillRule ==
  \A k \in 1..Len(fills) :
    LET f == fills[k]
    IN  Len(f.suf_pen) <= f.n =>
          IF f.suf_pen = <<>> /\ f.pen < 0
            THEN f.result = <<>>
            ELSE /\ Len(f.result) = f.n
                 /\ \A i \in 1..f.n : f.result[i] = FilledEntry(f, i)

\* Both examples in one run: n = 3, default 1, suffix [-1, 2] for the lower
\* bounds; n = 3, default -1, no suffix for the upper bounds.
C6_Witness ==
  /\ fills # <<>>
  /\ fills[1].suf_pen = <<-1, 2>> /\ fills[1].pen = 1 /\ fills[1].n = 3
  /\ fills[1].result = <<Infinity, 2, 1>>
  /\ fills[2].suf_pen = <<>> /\ fills[2].pen = -1 /\ fills[2].n = 3
  /\ fills[2].result = <<>>
  /\ pc = "done"

\* C6 as stated: for every suffix array the result is the empty array if
\* the suffix is empty and the default negative, and otherwise has exactly
\* n entries, entry i being the suffix value at i (Infinity when negative)
\* when the suffix has one and the scalar default itself when it has not.
C6_AsClaimed ==
  \A k \in 1..Len(fills) :
    LET f == fills[k]
    IN  IF f.suf_pen = <<>> /\ f.pen < 0
          THEN f.result = <<>>
          ELSE /\ Len(f.result) = f.n
               /\ \A i \in 1..f.n :
                    f.result[i] =
                      IF i <= Len(f.suf_pen)
                        THEN (IF f.suf_pen[i] < 0 THEN Infinity
                              ELSE f.suf_pen[i])
                        ELSE f.pen

InputExtrasReturned == phases # <<>> /\ pc \notin {"InputExtras", "aborted"}

FeasRelaxBuilt == fills # <<>>

AllPenaltiesInfinite ==
  /\ ReadDblSuffix(problem, "lbpen", "VAR") = <<>>
  /\ ReadDblSuffix(problem, "ubpen", "VAR") = <<>>
  /\ ReadDblSuffix(problem, "lbpen", "CON") = <<>>
  /\ storedOptions_.lbpen_ < 0
  /\ storedOptions_.ubpen_ < 0
  /\ storedOptions_.rhspen_ < 0

AnyDefaultNegative ==
  \/ storedOptions_.lbpen_ < 0
  \/ storedOptions_.ubpen_ < 0
  \/ storedOptions_.rhspen_ < 0

\* C7 (as amended): the input-extras phase builds the feasibility relaxation
\* data (mode and three penalty arrays) exactly when the mode option is
\* nonzero and it is not the case that the three suffix arrays read (variable
\* lbpen, variable ubpen, constraint lbpen) are all empty and the three
\* defaults all negative; otherwise the data stay untouched (mode 0, empty
\* arrays), also with mode 0 and a negative default.
C7_BuiltIffModeAndFinite ==
  InputExtrasReturned =>
    /\ FeasRelaxBuilt <=>
         (storedOptions_.feasRelax_ # 0 /\ ~AllPenaltiesInfinite)
    /\ FeasRelaxBuilt => feasRelaxIO_.mode_ = storedOptions_.feasRelax_
    /\ ~FeasRelaxBuilt => feasRelaxIO_ = DefaultFeasrelaxIO

C7_Witness ==
  /\ InputExtrasReturned
  /\ storedOptions_.feasRelax_ = 0
  /\ AnyDefaultNegative
  /\ feasRelaxIO_ = DefaultFeasrelaxIO
  /\ pc = "done"

\* C7 as stated: the data are built whenever the mode is nonzero or any of
\* the three defaults is negative.
C7_AsClaimed ==
  InputExtrasReturned =>
    (FeasRelaxBuilt <=> (storedOptions_.feasRelax_ # 0 \/ AnyDefaultNegative))

\* C25 as stated: when the feasibility relaxation data are built, the
\* three fills take the variable suffix lbpen with the default alg:lbpen,
\* the variable suffix ubpen with alg:ubpen, and the constraint suffix
\* rhspen with alg:rhspen.
C25_AsClaimed ==
  FeasRelaxBuilt =>
    /\ Len(fills) = 3
    /\ fills[1].suf_pen = ReadDblSuffix(problem, "lbpen", "VAR")
    /\ fills[1].pen = lbpen(storedOptions_)
    /\ fills[2].suf_pen = ReadDblSuffix(problem, "ubpen", "VAR")
    /\ fills[2].pen = ubpen(storedOptions_)
    /\ fills[3].suf_pen = ReadDblSuffix(problem, "rhspen", "CON")
    /\ fills[3].pen = rhspen(storedOptions_)

\* C28 as stated: no fill writes at an index beyond its result, and a fill
\* that builds an array returns exactly n entries.
C28_AsClaimed ==
  \A k \in 1..Len(fills) :
    /\ fills[k].oob = {}
    /\ ~(fills[k].suf_pen = <<>> /\ fills[k].pen < 0) =>
         Len(fills[k].result) = fills[k].n

IsIntegral(v) == v % Scale = 0

\* The distance from v to the nearest integer.
Deviation(v) == Min(v % Scale, Scale - (v % Scale))

MaxOf(S) == CHOOSE m \in S : \A n \in S : n <= m

\* The indexes DoRound counts: below both sizes, flagged, not integral.
Counted(x, fInt) ==
  {j \in 1..Min(Len(fInt), Len(x)) : fInt[j] /\ ~IsIntegral(x[j])}

\* C8: DoRound(sol) returns the number of indexes below min(#flags, #sol)
\* that are flagged integer and hold a non-integral value, and the largest
\* distance of such a value from its nearest integer (0 when there is none);
\* it overwrites each counted entry with its nearest integer exactly when
\* bit 1 of mip:round is set and leaves every other entry as it was, so an
\* integral solution gives (0, 0) and is unchanged whatever the bit.
C8_DoRound ==
  rounding.called =>
    LET J == Counted(rounding.x, problem.IsVarInt)
        fAssign == BitAnd(round(impl, storedOptions_), 1) = 1
    IN  /\ rounding.nround = Cardinality(J)
        /\ rounding.maxmodif =
             MaxOf({Deviation(rounding.x[j]) : j \in J} \cup {0})
        /\ Len(rounding.sol) = Len(rounding.x)
        /\ \A j \in 1..Len(rounding.x) :
             IF j \in J /\ fAssign
               THEN /\ IsIntegral(rounding.sol[j])
                    /\ Abs(rounding.sol[j] - rounding.x[j])
                         = Deviation(rounding.x[j])
               ELSE rounding.sol[j] = rounding.x[j]
        /\ J = {} => /\ rounding.nround = 0 /\ rounding.maxmodif = 0
                     /\ rounding.sol = rounding.x

C8_Witness ==
  /\ rounding.called
  /\ rounding.nround = 2
  /\ Deviation(rounding.x[1]) < Deviation(rounding.x[2])
  /\ rounding.maxmodif = Deviation(rounding.x[2])
  /\ rounding.sol # rounding.x

\* C9: when a rounding scan has counted a variable, bit 2 of mip:round is
\* set and the solve code is not NOT_CHECKED, the solve code becomes 2 if
\* bit 1 is set and 3 if it is not; with bit 2 clear, with no status
\* determined or with nothing counted it stays as it was; and HandleSolution
\* receives the code after this.
C9_CodeAfterRounding ==
  /\ rounding.called =>
       LET rnd == round(impl, storedOptions_)
       IN  IF /\ rounding.nround >= 1
              /\ BitAnd(rnd, 2) # 0
              /\ rounding.code_before # NOT_CHECKED
             THEN rounding.code_after = (IF BitAnd(rnd, 1) # 0 THEN 2 ELSE 3)
             ELSE rounding.code_after = rounding.code_before
  /\ \A i \in 1..Len(reported) :
       reported[i].call = "HandleSolution" =>
         /\ reported[i].code = solve_code_
         /\ rounding.called /\ rounding.at = "ReportSolution" =>
              reported[i].code = rounding.code_after

C9_Witness ==
  /\ rounding.called
  /\ rounding.at = "ReportSolution"
  /\ rounding.code_before = SOLVED
  /\ rounding.code_after = 2
  /\ reported # <<>>
  /\ reported[Len(reported)].call = "HandleSolution"
  /\ reported[Len(reported)].code = 2

\* C10 as stated: when the largest deviation the scan found is at or below
\* mip:round_reptol, rounding changes neither the solve code nor the
\* message.
C10_AsClaimed ==
  rounding.called /\ rounding.maxmodif <= round_reptol(storedOptions_) =>
    /\ rounding.code_after = rounding.code_before
    /\ rounding.msg_after = rounding.msg_before

\* C29 as stated: rounding leaves a retrieved solve code that is not
\* SOLVED out of the solved range, the codes below INFEASIBLE, and the code
\* HandleSolution gets is never below the code the status mapper gave.
C29_AsClaimed ==
  /\ (/\ rounding.called
      /\ IsSolStatusRetrieved(rounding.code_before)
      /\ ~IsProblemSolved(rounding.code_before)) =>
       rounding.code_after >= INFEASIBLE
  /\ \A i \in 1..Len(reported) :
       reported[i].call = "HandleSolution" =>
         reported[i].code >= ConvertSolutionStatus(native).code

----------------------------------------------------------------------------
(* Properties of the status predicates *)

StatusAssigned == IsSolStatusRetrieved(solve_code_)

\* C11: for every solve code that has been assigned, IsProblemSolved holds
\* exactly of SOLVED and IsProblemInfOrUnb exactly of the codes from
\* INFEASIBLE to UNBOUNDED, and never both; also for INFEASIBLE + 1,
\* FAILURE + 1 and the codes 2 and 3 that rounding assigns.
C11_SolvedAndInfOrUnb ==
  StatusAssigned =>
    /\ IsProblemSolved(solve_code_) <=> solve_code_ = SOLVED
    /\ IsProblemInfOrUnb(solve_code_) <=>
         (INFEASIBLE <= solve_code_ /\ solve_code_ <= UNBOUNDED)
    /\ ~(IsProblemSolved(solve_code_) /\ IsProblemInfOrUnb(solve_code_))

\* A rounding code that replaced a code of the infeasible range.
C11_Witness ==
  /\ rounding.called
  /\ IsProblemInfOrUnb(rounding.code_before)
  /\ solve_code_ = 3
  /\ ~IsProblemSolved(solve_code_)
  /\ ~IsProblemInfOrUnb(solve_code_)

InInfOrUnbRange(code) == INFEASIBLE <= code /\ code <= UNBOUNDED

\* C12 (as amended): IsProblemInfeasible holds exactly of the codes from
\* INFEASIBLE up to but excluding UNBOUNDED, IsProblemUnbounded exactly of
\* the codes above INFEASIBLE up to UNBOUNDED; every code of the range
\* satisfies at least one of them, a code strictly inside the range (such as
\* INFEASIBLE + 1, infeasible or unbounded) satisfies both, and no code
\* outside the range satisfies either.
C12_InfeasibleUnboundedOverlap ==
  StatusAssigned =>
    /\ IsProblemInfeasible(solve_code_) <=>
         (INFEASIBLE <= solve_code_ /\ solve_code_ < UNBOUNDED)
    /\ IsProblemUnbounded(solve_code_) <=>
         (INFEASIBLE < solve_code_ /\ solve_code_ <= UNBOUNDED)
    /\ InInfOrUnbRange(solve_code_) =>
         (IsProblemInfeasible(solve_code_) \/ IsProblemUnbounded(solve_code_))
    /\ (INFEASIBLE < solve_code_ /\ solve_code_ < UNBOUNDED) =>
         (IsProblemInfeasible(solve_code_) /\ IsProblemUnbounded(solve_code_))
    /\ ~InInfOrUnbRange(solve_code_) =>
         (~IsProblemInfeasible(solve_code_)
            /\ ~IsProblemUnbounded(solve_code_))

C12_Witness ==
  /\ native.optimstatus = "INForUNBD"
  /\ solve_code_ = INFEASIBLE + 1
  /\ IsProblemInfeasible(solve_code_)
  /\ IsProblemUnbounded(solve_code_)
  /\ pc = "done"

\* C12 as stated: a code of the range satisfies exactly one of the two
\* predicates, and a code outside it neither.
C12_AsClaimed ==
  StatusAssigned =>
    /\ InInfOrUnbRange(solve_code_) =>
         (IsProblemInfeasible(solve_code_) # IsProblemUnbounded(solve_code_))
    /\ ~InInfOrUnbRange(solve_code_) =>
         (~IsProblemInfeasible(solve_code_)
            /\ ~IsProblemUnbounded(solve_code_))

\* The status mapper has just returned.
Classified == pc = "ReportResults"

\* C13: when the interrupter reports Stop, the status mapper never gives
\* FAILURE or a code above it; an outcome with no native status that it knows
\* is then INTERRUPTED, "interrupted", also when the solution pool holds a
\* solution.
C13_InterruptedNotFailure ==
  Classified /\ native.stop =>
    /\ solve_code_ < FAILURE
    /\ native.optimstatus = "OTHER" =>
         (solve_code_ = INTERRUPTED /\ solve_status_ = "interrupted")

C13_Witness ==
  /\ Classified
  /\ native.stop
  /\ native.optimstatus = "OTHER"
  /\ native.solcount > 0
  /\ solve_code_ = INTERRUPTED

\* C24 as stated: HandleSolution is called at most once in a run, and only
\* when InputExtras, the solve, RecordSolveTime and ObtainSolutionStatus
\* have returned; and a run that a phase ended by raising has reported
\* nothing: no solution, no intermediate solution, no suffix.
C24_AsClaimed ==
  /\ Cardinality({i \in 1..Len(reported) :
                    reported[i].call = "HandleSolution"}) <= 1
  /\ (\E i \in 1..Len(reported) : reported[i].call = "HandleSolution") =>
       /\ Len(phases) >= 7
       /\ IsPrefix(PhaseOrder(FALSE), phases)
  /\ pc = "aborted" => reported = <<>>

----------------------------------------------------------------------------
(* Cancellation: specification and properties *)

\* A problem the solver solves to optimality, solved MaxRuns times in one
\* process, with cancellations requested at any moment.
CancelInit ==
  /\ impl \in SolvableImpls
  /\ RegistryEmpty
  /\ CplexIdle
  /\ storedOptions_ \in StoredOptionsOf("cancel", impl)
  /\ \E t \in BOOLEAN : solver_ = [timing |-> t, multiobj |-> FALSE]
  /\ problem = [IdleProblem EXCEPT !.nvars = 1, !.ncons = 1, !.nobjs = 1,
                                   !.IsVarInt = <<FALSE>>]
  /\ world = "cancel"
  /\ LifecycleIdle
  /\ OptionsIdle

SpecCancel == CancelInit /\ [][CancelNext]_vars

\* The solve phase of the current run has returned.
SolveReturned == "RecordSolveTime" \in Range(phases) \/ pc = "RecordSolveTime"

\* C26 as stated: in a run in which no cancellation was requested the flag
\* is clear when the solve phase starts and while it runs, the solve is not
\* terminated, and its outcome is not classified as interrupted: the
\* problem is solved.
C26_AsClaimed ==
  run_no \notin requested =>
    /\ pc \in {"SolveAndReportIntermediateResults", "solving"} =>
         terminate_flag = 0
    /\ SolveReturned => native.optimstatus = "OPTIMAL"
    /\ SolveReturned /\ pc \notin {"RecordSolveTime", "ObtainSolutionStatus"}
         => (solve_code_ = SOLVED /\ solve_code_ # INTERRUPTED)

----------------------------------------------------------------------------
(* The rows of CplexBackend: specification and properties *)

RowsInit ==
  /\ impl = CplexBackendImpl
  /\ RegistryEmpty
  /\ CplexIdle
  /\ storedOptions_ = DefaultOptions
  /\ solver_ = [timing |-> FALSE, multiobj |-> FALSE]
  /\ problem = IdleProblem
  /\ world = "rows"
  /\ LifecycleIdle
  /\ OptionsIdle

SpecRows == RowsInit /\ [][RowsNext]_vars

\* C30 as stated: the row is an equality with right-hand side lb when
\* lb = ub, 'G' with lb when only lb is finite, 'L' with ub when only ub is
\* finite, a range row from lb with range ub - lb when both are finite and
\* differ, and never an equality with an infinite right-hand side when
\* both are infinite.
C30_AsClaimed ==
  \A i \in 1..Len(rows) :
    LET lb == rows[i].lb
        ub == rows[i].ub
        row == rows[i].row
    IN  /\ lb = ub => (row.sense = "E" /\ row.rhs = lb)
        /\ IsFinite(lb) /\ ub = Infinity =>
             (row.sense = "G" /\ row.rhs = lb)
        /\ lb = MinusInfinity /\ IsFinite(ub) =>
             (row.sense = "L" /\ row.rhs = ub)
        /\ IsFinite(lb) /\ IsFinite(ub) /\ lb # ub =>
             (row.sense = "R" /\ row.rhs = lb /\ row.range = <<ub - lb>>)
        /\ lb = MinusInfinity /\ ub = Infinity =>
             ~(row.sense = "E" /\ ~IsFinite(row.rhs))
        /\ row.sense # "R" => row.range = <<>>

----------------------------------------------------------------------------
(* Solver options: specification and properties *)

\* The defaults the library can have: 0 or 1 for the parameter the backend
\* sets by itself, 0 for the others.
EnvDefaults ==
  {d \in [ParamKeys -> 0..1] : \A k \in ParamKeys \ {MIP_Display} : d[k] = 0}

\* A backend whose solver environment has just been opened, with whatever
\* defaults the library has.
OptionsInit ==
  /\ impl = CplexBackendImpl
  /\ RegistryEmpty
  /\ CplexIdle
  /\ storedOptions_ = DefaultOptions
  /\ solver_ = [timing |-> FALSE, multiobj |-> FALSE]
  /\ problem = IdleProblem
  /\ world = "options"
  /\ LifecycleIdle
  /\ env_defaults \in EnvDefaults
  /\ params = env_defaults
  /\ slvOptionRecords_ = <<>>
  /\ sets = <<>>
  /\ replays = <<>>
  /\ snapshot = <<>>
  /\ optpc = "constructed"
  /\ option_error = <<>>

SpecOptions == OptionsInit /\ [][OptionsNext]_vars

\* The sets that returned, in the order they happened, as setters.
RECURSIVE SuccessfulSets(_)
SuccessfulSets(s) ==
  IF s = <<>> THEN <<>>
  ELSE IF Head(s).ok
    THEN <<Setter(Head(s).key, Head(s).value)>> \o SuccessfulSets(Tail(s))
  ELSE SuccessfulSets(Tail(s))

\* C14: the record list holds exactly one entry per set that returned, in
\* the order of the sets; a set whose backend setter threw left no entry and
\* no value; and a set that returned has its value in the backend right
\* after it.
C14_OneRecordPerSuccessfulSet ==
  /\ slvOptionRecords_ = SuccessfulSets(sets)
  /\ \A i \in 1..Len(sets) :
       sets[i].ok <=> NativeAccepts(sets[i].key, sets[i].value)
  /\ optpc = "configuring" /\ sets # <<>> /\ sets[Len(sets)].ok =>
       params[sets[Len(sets)].key] = sets[Len(sets)].value

C14_Witness ==
  /\ Len(sets) = 2
  /\ sets[1].ok /\ ~sets[2].ok
  /\ Len(slvOptionRecords_) = 1
  /\ params[sets[1].key] = sets[1].value

\* C15: every ReplaySolverOptions invoked each record once, in the order of
\* the list, and changed no record: the list after any number of replays is
\* the list the sets built.
C15_ReplayInOrderReadOnly ==
  /\ \A i \in 1..Len(replays) : replays[i].run = replays[i].before
  /\ slvOptionRecords_ = SuccessfulSets(sets)

C15_Witness ==
  /\ Len(replays) = 2
  /\ Len(slvOptionRecords_) = 2
  /\ slvOptionRecords_[1] # slvOptionRecords_[2]
  /\ replays[2].run = slvOptionRecords_
  /\ replays[1].run = slvOptionRecords_

\* C16 as stated: after a reset of the environment and a replay, with no
\* option set since the reset, every native parameter has the value it had
\* before the reset.
C16_AsClaimed ==
  optpc = "replayed" /\ snapshot # <<>> /\ Len(sets) = snapshot[1].nsets =>
    params = snapshot[1].params

----------------------------------------------------------------------------
(* The standard features: specification and properties *)

\* A MIP solved by a backend with every feature, with BasicBackend's
\* features and with none, under every option its features register.
FeaturesInit ==
  /\ impl \in {CplexBackendImpl, FullBackendImpl, PlainBackendImpl}
  /\ RegistryEmpty
  /\ CplexIdle
  /\ storedOptions_ \in StoredOptionsOf("features", impl)
  /\ \E mo \in OptionValues(impl, "MULTIOBJ", FALSE, {TRUE}) :
       solver_ = [timing |-> TRUE, multiobj |-> mo]
  /\ \E no \in 1..2 :
       problem = [IdleProblem EXCEPT !.nvars = 1, !.ncons = 1, !.nobjs = no,
                                     !.isMIP = TRUE, !.IsVarInt = <<TRUE>>]
  /\ world = "features"
  /\ LifecycleIdle
  /\ OptionsIdle

SpecFeatures == FeaturesInit /\ [][LifecycleNext]_vars

\* C17 (as amended): in a backend that does not declare it, each of MULTIOBJ,
\* MULTISOL, KAPPA and FEAS_RELAX is off and WANT_ROUNDING is on.
C17_DefaultsOfFeatures ==
  \A f \in StdFeatures :
    f \notin DOMAIN impl.allow =>
      (ImplHasStdFeature(impl, f) <=> f = "WANT_ROUNDING")

\* CplexBackend declares no feature, and its solution has been rounded.
C17_Witness ==
  /\ impl = CplexBackendImpl
  /\ DOMAIN impl.allow = {}
  /\ rounding.called
  /\ rounding.sol # rounding.x
  /\ pc = "done"

\* C17 as stated: a feature the backend does not declare is off.
C17_AsClaimed ==
  \A f \in StdFeatures :
    f \notin DOMAIN impl.allow => ~ImplHasStdFeature(impl, f)

HasPart(msg, name) == \E i \in 1..Len(msg) : msg[i].part = name

MultiObjCalls == MultiObjInputs \cup {"ObjectiveValues"}

\* C18: with KAPPA off Kappa() is never invoked, with FEAS_RELAX off the
\* feasibility relaxation data are never built, with WANT_ROUNDING off no
\* solution is rounded and no code or message changed for rounding, with
\* MULTIOBJ off none of ObjPriorities, ObjWeights, ObjAbsTol, ObjRelTol,
\* ObjectiveValues is invoked; and SolveAndReport never ends with the
\* Unsupported error of a feature.
C18_FeaturesGateTheLifecycle ==
  /\ ~ImplHasStdFeature(impl, "KAPPA") => "Kappa" \notin invoked
  /\ ~ImplHasStdFeature(impl, "FEAS_RELAX") =>
       (fills = <<>> /\ feasRelaxIO_ = DefaultFeasrelaxIO)
  /\ ~ImplHasStdFeature(impl, "WANT_ROUNDING") =>
       /\ ~rounding.called
       /\ \A i \in 1..Len(reported) :
            reported[i].call \in {"HandleSolution", "HandleFeasibleSolution"}
              => ~HasPart(reported[i].msg, "rounding")
       /\ \A i \in 1..Len(reported) :
            reported[i].call = "HandleSolution" =>
              /\ reported[i].sol = native.x
              /\ reported[i].code = ConvertSolutionStatus(native).code
  /\ ~ImplHasStdFeature(impl, "MULTIOBJ") => invoked \cap MultiObjCalls = {}
  /\ solve_error # <<>> => Head(solve_error) # "Unsupported: "

\* A backend without rounding has reported a non-integral value of an
\* integer variable as it is.
C18_Witness ==
  /\ impl = PlainBackendImpl
  /\ pc = "done"
  /\ problem.isMIP /\ problem.IsVarInt = <<TRUE>>
  /\ ~IsIntegral(native.x[1])
  /\ reported[Len(reported)].call = "HandleSolution"
  /\ reported[Len(reported)].sol = native.x
  /\ invoked = {"ObjectiveValue"}

ResultsReported == "ReportResults" \in Range(phases) /\ pc # "ReportResults"

KappaSuffixReported ==
  \E i \in 1..Len(reported) :
    /\ reported[i].call = "ReportSingleSuffix"
    /\ reported[i].suffix \in {"objkappa", "probkappa"}

KappaLineWritten ==
  \E i \in 1..Len(reported) :
    /\ reported[i].call = "HandleSolution"
    /\ HasPart(reported[i].msg, "kappa")

\* C19 as stated: for a solved problem the kappa line is in the message
\* exactly when bit 1 of alg:kappa is set, and the kappa suffixes are
\* reported exactly when bit 2 is set.
C19_AsClaimed ==
  ResultsReported /\ pc # "aborted"
    /\ ConvertSolutionStatus(native).code = SOLVED =>
      /\ KappaLineWritten <=> BitAnd(exportKappa(storedOptions_), 1) # 0
      /\ KappaSuffixReported <=> BitAnd(exportKappa(storedOptions_), 2) # 0

\* C20 as stated: for a status other than SOLVED, ReportResults does not
\* invoke Kappa() and emits neither the kappa line nor the kappa suffixes.
C20_AsClaimed ==
  ResultsReported /\ ConvertSolutionStatus(native).code # SOLVED =>
    /\ "Kappa" \notin invoked
    /\ ~KappaLineWritten
    /\ ~KappaSuffixReported

----------------------------------------------------------------------------
(* The solution message: specification and properties *)

\* A MIP of three variables, the first and the third integer, solved under
\* every value of mip:round, with and without kappa, iterations, nodes and
\* an extra solver message.
MessageInit ==
  /\ impl \in SolvableImpls
  /\ RegistryEmpty
  /\ CplexIdle
  /\ storedOptions_ \in StoredOptionsOf("message", impl)
  /\ \E mo \in OptionValues(impl, "MULTIOBJ", FALSE, {TRUE}) :
       \E tm \in BOOLEAN : solver_ = [timing |-> tm, multiobj |-> mo]
  /\ \E no \in 0..2 :
       problem = [IdleProblem EXCEPT !.nvars = Len(RoundingExample),
                                     !.ncons = 1, !.nobjs = no,
                                     !.isMIP = TRUE,
                                     !.IsVarInt = <<TRUE, FALSE, TRUE>>]
  /\ world = "message"
  /\ LifecycleIdle
  /\ OptionsIdle

SpecMessage == MessageInit /\ [][LifecycleNext]_vars

\* The place of a part in the order of ReportSolution's writes.  The lines
\* of the individual and of the original objective belong to the objective.
PartRank(name) ==
  CASE name = "status" -> 0
    [] name \in {"objective", "individual objective values",
                 "original objective"} -> 1
    [] name = "kappa" -> 2
    [] name = "iterations" -> 3
    [] name = "nodes" -> 4
    [] name = "extra" -> 5
    [] name = "rounding" -> 6

OptionalParts == {"objective", "kappa", "iterations", "nodes", "extra",
                  "rounding"}

\* The messages handed to HandleSolution.
SolutionMessages ==
  {reported[i].msg : i \in {j \in 1..Len(reported) :
                              reported[j].call = "HandleSolution"}}

\* C21: every message handed to HandleSolution begins with the part
\* '<long name>: <status text>' of the status the mapper gave, and holds
\* each of objective, kappa, iterations, nodes, extra solver message and
\* rounding summary at most once, in this order: no part stands before one
\* that precedes it in the order.
C21_MessagePartsInOrder ==
  \A msg \in SolutionMessages :
    /\ msg # <<>>
    /\ msg[1] = Part("status", <<ConvertSolutionStatus(native).text>>)
    /\ \A i \in 2..Len(msg) : msg[i].part # "status"
    /\ \A i, j \in 1..Len(msg) :
         i < j => PartRank(msg[i].part) <= PartRank(msg[j].part)
    /\ \A name \in OptionalParts :
         Cardinality({i \in 1..Len(msg) : msg[i].part = name}) <= 1

\* A message with all six optional parts.
C21_Witness ==
  \E msg \in SolutionMessages :
    /\ Len(msg) = 7
    /\ [i \in 1..7 |-> msg[i].part] =
         <<"status", "objective", "kappa", "iterations", "nodes", "extra",
           "rounding">>

\* The summary ModifySolveCodeAndMessageAfterRounding writes for a scan
\* that counted n variables with the largest deviation maxerr.
RoundingSummary(n, assigned, maxerr) ==
  Part("rounding", <<n, IF n > 1 THEN "s" ELSE "",
                     IF assigned THEN "" ELSE "would be ", maxerr>>)

\* C22: when bit 4 of mip:round is set and the scan counted a variable, the
\* message after rounding is the message before it with one summary at its
\* end: the count, the plural exactly when the count exceeds 1, 'would be'
\* exactly when bit 1 is clear, and the largest deviation; with bit 4 clear,
\* or nothing counted, the message is left as it was; HandleSolution gets
\* the message after rounding.  For flags [true, false, true] and the
\* example solution with bits 1 and 4 set, the count is 2, the first and
\* the third value are replaced by 1 and 3 and the second is kept.
C22_RoundingSummary ==
  rounding.called =>
    LET rnd == round(impl, storedOptions_)
        J == Counted(rounding.x, problem.IsVarInt)
    IN  /\ rounding.nround = Cardinality(J)
        /\ IF BitAnd(rnd, 4) # 0 /\ rounding.nround >= 1
             THEN rounding.msg_after =
                    Append(rounding.msg_before,
                           RoundingSummary(
                             Cardinality(J), BitAnd(rnd, 1) # 0,
                             MaxOf({Deviation(rounding.x[j]) : j \in J})))
             ELSE rounding.msg_after = rounding.msg_before
        /\ BitAnd(rnd, 4) = 0 => ~HasPart(rounding.msg_after, "rounding")
        /\ rounding.at = "ReportSolution" =>
             \A msg \in SolutionMessages : msg = rounding.msg_after
        /\ (/\ rounding.x = RoundingExample
            /\ BitAnd(rnd, 1) # 0 /\ BitAnd(rnd, 4) # 0) =>
             /\ rounding.nround = 2
             /\ rounding.sol = <<Scale, 2 * Scale + 3, 3 * Scale>>
             /\ rounding.msg_after[Len(rounding.msg_after)].args[1] = 2

\* The example: two of three variables rounded, and said so in the message
\* HandleSolution got.
C22_Witness ==
  /\ rounding.called /\ rounding.at = "ReportSolution"
  /\ problem.IsVarInt = <<TRUE, FALSE, TRUE>>
  /\ rounding.x = RoundingExample
  /\ round(impl, storedOptions_) = 5
  /\ rounding.sol = <<Scale, 2 * Scale + 3, 3 * Scale>>
  /\ \E msg \in SolutionMessages :
       msg[Len(msg)] = RoundingSummary(2, TRUE, Scale \div 2 - 1)

============================================================================
